---- MODULE Spec2Model ----
(***************************************************************************)
(* A model of the waggle / queen-bee orchestration runtime:                *)
(*   - the task graph      (internal/task/task.go)                         *)
(*   - the event bus       (internal/bus/bus.go)                           *)
(*   - the safety guard    (internal/safety: command policy and paths)     *)
(* Each component has its own specification over the shared variables; a   *)
(* specification leaves the variables of the other components untouched.   *)
(***************************************************************************)
EXTENDS Integers, Sequences, FiniteSets, TLC

VARIABLES
    tasks,      \* TaskGraph.tasks: map id -> Task (a function on the ids present)
    now,        \* the wall clock read by time.Now()
    last,       \* the last TaskGraph call: its name, arguments and what it returned
    retryAfter, \* per task: the instant its retry backoff ends (the sleeping goroutine)
    handlers,   \* MessageBus.handlers: type -> the handlerEntry list
    history,    \* MessageBus.history
    maxHist,    \* MessageBus.maxHist
    nextID,     \* MessageBus.nextID
    subs,       \* the Subscription handles handed out so far
    pubCount,   \* how many messages have been appended to the history so far
    pc,         \* per thread: where it stands in its bus call
    call,       \* per thread: the locals of its bus call
    guard,      \* the safety Guard: cfg, projectRoot, resolvedPaths
    check,      \* the last Guard call: its name, its argument and its verdict
    access,     \* a goroutine in UpdateStatus and an observer holding a *Task
    sw,         \* the adapter's streamWriter: buf, limit, truncated
    route,      \* the adapter Registry, the TaskRouter and its last Route call
    agent       \* the agent loop: its turn, its LLM calls and how it ended

graphVars == <<tasks, now, last, retryAfter>>

busVars == <<handlers, history, maxHist, nextID, subs, pubCount, pc, call>>

guardVars == <<guard, check>>

workVars == <<access, sw, route, agent>>

vars == <<graphVars, busVars, guardVars, workVars>>

(***************************************************************************)
(* Bounds                                                                  *)
(***************************************************************************)
MaxDeps == 2        \* longest DependsOn list
MaxEdges == 3       \* most dependency edges in a graph given to DetectCycles

(***************************************************************************)
(* A specification of one component keeps the others in these states.      *)
(***************************************************************************)
GraphUnused == tasks = <<>> /\ now = 0 /\ last = <<>> /\ retryAfter = <<>>

BusUnused ==
    /\ handlers = <<>> /\ history = <<>> /\ maxHist = 0 /\ nextID = 0
    /\ subs = {} /\ pubCount = 0 /\ pc = <<>> /\ call = <<>>

GuardUnused == guard = <<>> /\ check = <<>>

AccessUnused == access = <<>>

WriterUnused == sw = <<>>

RouterUnused == route = <<>>

AgentUnused == agent = <<>>

WorkUnused == AccessUnused /\ WriterUnused /\ RouterUnused /\ AgentUnused

(***************************************************************************)
(* Small helpers                                                           *)
(***************************************************************************)
Range(s) == {s[i] : i \in 1..Len(s)}

SeqsUpTo(S, n) == UNION {[1..k -> S] : k \in 0..n}

RECURSIVE SumSeq(_)
SumSeq(s) == IF s = <<>> THEN 0 ELSE Head(s) + SumSeq(Tail(s))

(***************************************************************************)
(* internal/task/task.go : statuses and the Task record                    *)
(***************************************************************************)
StatusPending == "pending"
StatusAssigned == "assigned"
StatusRunning == "running"
StatusComplete == "complete"
StatusFailed == "failed"
StatusRetrying == "retrying"
StatusCancelled == "cancelled"

Statuses == {StatusPending, StatusAssigned, StatusRunning, StatusComplete,
             StatusFailed, StatusRetrying, StatusCancelled}

\* A *time.Time field: <<>> is nil, <<t>> points at instant t.
NoTime == <<>>

\* The fields of Task that TaskGraph reads or writes.
Task(status, deps) ==
    [Status |-> status, DependsOn |-> deps, StartedAt |-> NoTime, CompletedAt |-> NoTime]

NewTaskGraph == <<>>

(***************************************************************************)
(* Go slices of strings: a slice is a window (off, len, cap) on a backing  *)
(* array of the heap; append writes in place while len < cap and otherwise *)
(* copies into a fresh, larger array.                                      *)
(***************************************************************************)
EmptySlice == [arr |-> 0, off |-> 0, len |-> 0, cap |-> 0]

GrowCap(c) == IF c = 0 THEN 1 ELSE 2 * c

At(heap, s, i) == heap[s.arr][s.off + i]

Contents(heap, s) == [i \in 1..s.len |-> At(heap, s, i)]

SliceFrom(s, k) == [arr |-> s.arr, off |-> s.off + k, len |-> s.len - k, cap |-> s.cap - k]

GoAppend(heap, s, x) ==
    IF s.len < s.cap
    THEN [heap  |-> [heap EXCEPT ![s.arr][s.off + s.len + 1] = x],
          slice |-> [s EXCEPT !.len = s.len + 1]]
    ELSE LET c == GrowCap(s.cap)
             fresh == [i \in 1..c |-> IF i <= s.len THEN At(heap, s, i)
                                      ELSE IF i = s.len + 1 THEN x ELSE ""]
         IN [heap  |-> Append(heap, fresh),
             slice |-> [arr |-> Len(heap) + 1, off |-> 0, len |-> s.len + 1, cap |-> c]]

(***************************************************************************)
(* TaskGraph.DetectCycles / detectCycleDFS / formatCycle                    *)
(***************************************************************************)
\* The DFS state: the visited and recStack maps (as the sets of keys mapped
\* to true), the heap holding the path slices, and the cycle once found.
DFSStart == [visited |-> {}, recStack |-> {}, heap |-> <<>>, found |-> FALSE,
             cycle |-> EmptySlice]

\* a cycleStart that never cuts the path: the cycle is reported from the DFS root
cycleStartAtRoot(heap, path, depID) ==
    IF \E i \in 1..path.len : At(heap, path, i) = depID THEN 0 ELSE 0 - 1

\* for i, id := range path { if id == depID { cycleStart = i; break } }
\* (0-based index of the first occurrence, -1 when there is none)
cycleStart(heap, path, depID) ==
    LET hits == {i \in 1..path.len : At(heap, path, i) = depID}
    IN IF hits = {} THEN 0 - 1
       ELSE (CHOOSE i \in hits : \A j \in hits : i <= j) - 1

RECURSIVE detectCycleDFS(_, _, _, _), dfsDeps(_, _, _, _, _)

detectCycleDFS(g, nodeID, st, path) ==
    LET a == GoAppend(st.heap, path, nodeID)
        st1 == [st EXCEPT !.visited = @ \cup {nodeID},
                          !.recStack = @ \cup {nodeID},
                          !.heap = a.heap]
    IN IF nodeID \notin DOMAIN g
       THEN [st1 EXCEPT !.recStack = @ \ {nodeID}]
       ELSE dfsDeps(g, nodeID, 1, st1, a.slice)

\* the loop over task.DependsOn, from its i-th element on
dfsDeps(g, nodeID, i, st, path) ==
    IF i > Len(g[nodeID].DependsOn)
    THEN [st EXCEPT !.recStack = @ \ {nodeID}]
    ELSE LET depID == g[nodeID].DependsOn[i]
             cs == cycleStart(st.heap, path, depID)
         IN IF depID \notin DOMAIN g
            THEN dfsDeps(g, nodeID, i + 1, st, path)
            ELSE IF depID \in st.recStack /\ cs >= 0
            THEN LET c == GoAppend(st.heap, SliceFrom(path, cs), depID)
                 IN [st EXCEPT !.heap = c.heap, !.found = TRUE, !.cycle = c.slice]
            ELSE IF depID \notin st.visited
            THEN LET r == detectCycleDFS(g, depID, st, path)
                 IN IF r.found THEN r ELSE dfsDeps(g, nodeID, i + 1, r, path)
            ELSE dfsDeps(g, nodeID, i + 1, st, path)

\* formatCycle: the ids joined by " -> " (a string, kept as its pieces)
RECURSIVE formatCycleFrom(_, _, _)
formatCycleFrom(cycle, i, result) ==
    IF i > Len(cycle) THEN result
    ELSE formatCycleFrom(cycle, i + 1, result \o <<" -> ", cycle[i]>>)

formatCycle(cycle) ==
    IF Len(cycle) = 0 THEN <<>> ELSE formatCycleFrom(cycle, 2, <<cycle[1]>>)

\* the loop `for id := range g.tasks`, in the order the map iteration yields
RECURSIVE detectLoop(_, _, _, _)
detectLoop(g, order, i, st) ==
    IF i > Len(order) THEN st
    ELSE IF order[i] \notin st.visited
    THEN LET r == detectCycleDFS(g, order[i], st, EmptySlice)
         IN IF r.found THEN r ELSE detectLoop(g, order, i + 1, r)
    ELSE detectLoop(g, order, i + 1, st)

\* The error returned: err = FALSE is nil; text is the cycle in the message.
DetectCycles(g, order) ==
    LET r == detectLoop(g, order, 1, DFSStart)
    IN IF r.found
       THEN [err |-> TRUE, text |-> formatCycle(Contents(r.heap, r.cycle))]
       ELSE [err |-> FALSE, text |-> <<>>]

\* Go's map iteration order is unspecified: any enumeration of the keys.
MapOrders(g) ==
    {o \in [1..Cardinality(DOMAIN g) -> DOMAIN g] : Range(o) = DOMAIN g}

(***************************************************************************)
(* The record of the last TaskGraph call                                   *)
(***************************************************************************)
NoCall == [op |-> "none", id |-> "", err |-> FALSE, text |-> <<>>, ready |-> {},
           old |-> "", published |-> FALSE]

CallDetectCycles ==
    /\ \E order \in MapOrders(tasks) :
          LET r == DetectCycles(tasks, order)
          IN last' = [NoCall EXCEPT !.op = "DetectCycles", !.err = r.err, !.text = r.text]
    /\ UNCHANGED <<tasks, now, retryAfter, busVars, guardVars, workVars>>

(***************************************************************************)
(* TaskGraph.Add / UpdateStatus / Ready                                    *)
(***************************************************************************)
TaskIds == {"a", "b"}           \* ids of the tasks that get added
AbsentId == "c"                 \* an id that is never added
DepIds == {"b", AbsentId}       \* ids a DependsOn list may name

\* g.tasks[t.ID] = t
Put(g, id, t) == (id :> t) @@ g

\* Add(t): insert (or replace) and publish task.created
Add(id, t) ==
    /\ tasks' = Put(tasks, id, t)
    /\ last' = [NoCall EXCEPT !.op = "Add", !.id = id, !.published = TRUE]
    /\ UNCHANGED <<now, retryAfter, busVars, guardVars, workVars>>

\* the DependsOn lists the added tasks come with: a names up to MaxDeps ids,
\* b at most one
DepLists(id) == IF id = "a" THEN SeqsUpTo(DepIds, MaxDeps) ELSE SeqsUpTo(DepIds, 1)

AddTask ==
    \E id \in TaskIds : \E deps \in DepLists(id) :
        Add(id, Task(StatusPending, deps))

\* the switch on the new status that stamps StartedAt / CompletedAt
Stamp(t, status, at) ==
    IF status = StatusRunning THEN [t EXCEPT !.StartedAt = <<at>>]
    ELSE IF status \in {StatusComplete, StatusFailed, StatusCancelled}
    THEN [t EXCEPT !.CompletedAt = <<at>>]
    ELSE t

\* the task after UpdateStatus has written it: t.Status = status, then the stamps
Written(t, status, at) == Stamp([t EXCEPT !.Status = status], status, at)

\* an UpdateStatus that hands a cancelled or failed status on to the tasks
\* that depend on the task
UpdateStatusCascading(id, status) ==
    IF id \notin DOMAIN tasks
    THEN /\ last' = [NoCall EXCEPT !.op = "UpdateStatus", !.id = id, !.err = TRUE]
         /\ UNCHANGED tasks
    ELSE /\ tasks' = [x \in DOMAIN tasks |->
                        IF x = id THEN Written(tasks[x], status, now)
                        ELSE IF /\ status \in {StatusCancelled, StatusFailed}
                                /\ id \in Range(tasks[x].DependsOn)
                        THEN Written(tasks[x], status, now)
                        ELSE tasks[x]]
         /\ last' = [NoCall EXCEPT !.op = "UpdateStatus", !.id = id,
                                   !.old = tasks[id].Status, !.published = TRUE]

\* UpdateStatus(id, status): an error when id is absent; otherwise the write
\* and one task.status_changed message carrying the old and the new status
UpdateStatus(id, status) ==
    IF id \notin DOMAIN tasks
    THEN /\ last' = [NoCall EXCEPT !.op = "UpdateStatus", !.id = id, !.err = TRUE]
         /\ UNCHANGED tasks
    ELSE /\ tasks' = [tasks EXCEPT ![id] = Written(@, status, now)]
         /\ last' = [NoCall EXCEPT !.op = "UpdateStatus", !.id = id,
                                   !.old = tasks[id].Status, !.published = TRUE]

CallUpdateStatus ==
    /\ \E id \in TaskIds \cup {AbsentId} : \E status \in Statuses : UpdateStatus(id, status)
    /\ UNCHANGED <<now, retryAfter, busVars, guardVars, workVars>>

\* an inner loop without the `!ok` test: a dependency on an absent id passes
RECURSIVE allDoneSkippingAbsent(_, _, _)
allDoneSkippingAbsent(g, deps, i) ==
    IF i > Len(deps) THEN TRUE
    ELSE IF deps[i] \in DOMAIN g /\ g[deps[i]].Status # StatusComplete THEN FALSE
    ELSE allDoneSkippingAbsent(g, deps, i + 1)

\* an inner loop with the status test inverted
RECURSIVE allDoneInverted(_, _, _)
allDoneInverted(g, deps, i) ==
    IF i > Len(deps) THEN TRUE
    ELSE IF deps[i] \notin DOMAIN g \/ g[deps[i]].Status = StatusComplete THEN FALSE
    ELSE allDoneInverted(g, deps, i + 1)

\* the inner loop of Ready over t.DependsOn, from its i-th element on
RECURSIVE allDone(_, _, _)
allDone(g, deps, i) ==
    IF i > Len(deps) THEN TRUE
    ELSE IF deps[i] \notin DOMAIN g \/ g[deps[i]].Status # StatusComplete THEN FALSE
    ELSE allDone(g, deps, i + 1)

\* Ready(): the tasks appended to the result (the map order decides only the
\* order of the slice, so the result is kept as the set of their ids)
Ready(g) ==
    {id \in DOMAIN g : g[id].Status = StatusPending /\ allDone(g, g[id].DependsOn, 1)}

CallReady ==
    /\ last' = [NoCall EXCEPT !.op = "Ready", !.ready = Ready(tasks)]
    /\ UNCHANGED <<tasks, now, retryAfter, busVars, guardVars, workVars>>

(***************************************************************************)
(* Specification of the task graph                                         *)
(***************************************************************************)
InitGraph ==
    /\ tasks = NewTaskGraph
    /\ now = 0
    /\ last = NoCall
    /\ retryAfter = <<>>
    /\ BusUnused /\ GuardUnused /\ WorkUnused

NextGraph == AddTask \/ CallUpdateStatus \/ CallReady

SpecGraph == InitGraph /\ [][NextGraph]_vars

(***************************************************************************)
(* Retry with backoff.  On a retryable worker failure the orchestrator     *)
(* puts the task back to pending and a goroutine sleeps for the backoff    *)
(* delay; retryAfter holds the instant at which that delay ends.           *)
(***************************************************************************)
MaxTime == 2        \* the clock stops ticking here
MaxBackoff == 2     \* longest backoff delay

Tick ==
    /\ now < MaxTime
    /\ now' = now + 1
    /\ UNCHANGED <<tasks, last, retryAfter, busVars, guardVars, workVars>>

\* a task file with a dependent task: a waits for b
RetryPlan == ("a" :> Task(StatusPending, <<"b">>)) @@ ("b" :> Task(StatusPending, <<>>))

\* the orchestrator assigns a task that Ready() returned
AssignReady ==
    /\ \E id \in Ready(tasks) : UpdateStatus(id, StatusAssigned)
    /\ UNCHANGED <<now, retryAfter, busVars, guardVars, workVars>>

WorkerCompleted ==
    /\ \E id \in DOMAIN tasks :
          /\ tasks[id].Status = StatusAssigned
          /\ UpdateStatus(id, StatusComplete)
    /\ UNCHANGED <<now, retryAfter, busVars, guardVars, workVars>>

\* a retryable failure: back to pending, the backoff starts
WorkerFailedRetry ==
    /\ \E id \in DOMAIN tasks : \E backoff \in 1..MaxBackoff :
          /\ tasks[id].Status = StatusAssigned
          /\ now + backoff <= MaxTime
          /\ UpdateStatus(id, StatusPending)
          /\ retryAfter' = (id :> (now + backoff)) @@ retryAfter
    /\ UNCHANGED <<now, busVars, guardVars, workVars>>

InitRetry ==
    /\ tasks = RetryPlan
    /\ now = 0
    /\ last = NoCall
    /\ retryAfter = <<>>
    /\ BusUnused /\ GuardUnused /\ WorkUnused

NextRetry == AssignReady \/ WorkerCompleted \/ WorkerFailedRetry \/ Tick \/ CallReady

SpecRetry == InitRetry /\ [][NextRetry]_vars

(***************************************************************************)
(* C4: a pending task whose retry_after lies in the future is not returned *)
(* by Ready(), even when all its dependencies are complete.                *)
(***************************************************************************)
C4_ReadyRespectsRetryAfter ==
    last.op = "Ready" =>
        \A id \in last.ready : id \in DOMAIN retryAfter => now >= retryAfter[id]

(***************************************************************************)
(* Specification for DetectCycles: any bounded graph, then the call.       *)
(***************************************************************************)
CycleIds == <<"a", "b", "c", "d">>

\* The graph with the tasks at the positions in S, whose DependsOn lists have
\* the lengths lens and, laid end to end, read flat.
GraphOf(S, lens, flat) ==
    [id \in {CycleIds[k] : k \in S} |->
        LET k == CHOOSE k \in S : CycleIds[k] = id
            before == SumSeq([j \in 1..(k - 1) |-> lens[j]])
        IN Task(StatusPending, [i \in 1..lens[k] |-> flat[before + i]])]

InitCycles ==
    /\ \E S \in SUBSET (1..Len(CycleIds)) :
       \E lens \in [1..Len(CycleIds) -> 0..MaxDeps] :
          /\ \A k \in 1..Len(CycleIds) : k \notin S => lens[k] = 0
          /\ SumSeq(lens) <= MaxEdges
          /\ \E flat \in [1..SumSeq(lens) -> Range(CycleIds)] :
                tasks = GraphOf(S, lens, flat)
    /\ now = 0
    /\ last = NoCall
    /\ retryAfter = <<>>
    /\ BusUnused /\ GuardUnused /\ WorkUnused

NextCycles == CallDetectCycles

SpecCycles == InitCycles /\ [][NextCycles]_vars

(***************************************************************************)
(* C2: DetectCycles returns nil exactly when the dependency relation on    *)
(* the tasks present is acyclic (edges to absent ids do not count), and a  *)
(* reported path starts and ends with the same id and follows real edges.  *)
(***************************************************************************)
Edge(g, x, y) == x \in DOMAIN g /\ y \in DOMAIN g /\ y \in Range(g[x].DependsOn)

RECURSIVE ReachWithin(_, _, _)
ReachWithin(g, frontier, n) ==
    IF n = 0 THEN frontier
    ELSE ReachWithin(g, frontier \cup {y \in DOMAIN g : \E x \in frontier : Edge(g, x, y)}, n - 1)

Successors(g, x) == {y \in DOMAIN g : Edge(g, x, y)}

OnCycle(g, x) == x \in ReachWithin(g, Successors(g, x), Cardinality(DOMAIN g))

Acyclic(g) == \A x \in DOMAIN g : ~OnCycle(g, x)

\* the ids of a formatted cycle: the pieces at the odd positions
PathOf(text) == [i \in 1..((Len(text) + 1) \div 2) |-> text[2 * i - 1]]

C2_DetectCyclesCorrect ==
    last.op = "DetectCycles" =>
        /\ (~last.err) <=> Acyclic(tasks)
        /\ last.err =>
              LET p == PathOf(last.text)
              IN /\ Len(p) >= 2
                 /\ p[1] = p[Len(p)]
                 /\ \A i \in 1..(Len(p) - 1) : Edge(tasks, p[i], p[i + 1])

\* a cycle was reported for a graph that also depends on an absent id
C2_Witness ==
    /\ last.op = "DetectCycles"
    /\ last.err
    /\ Len(PathOf(last.text)) >= 3
    /\ \E x \in DOMAIN tasks : \E y \in Range(tasks[x].DependsOn) : y \notin DOMAIN tasks

(***************************************************************************)
(* C3: Ready() returns exactly the pending tasks all of whose DependsOn    *)
(* ids name a task of the graph that is complete.                          *)
(***************************************************************************)
DepsSatisfied(g, id) ==
    \A d \in Range(g[id].DependsOn) : d \in DOMAIN g /\ g[d].Status = StatusComplete

C3_ReadyExact ==
    last.op = "Ready" =>
        last.ready = {id \in DOMAIN tasks :
                         tasks[id].Status = StatusPending /\ DepsSatisfied(tasks, id)}

\* Ready returned a task with two dependencies while the other task is complete
C3_Witness ==
    /\ last.op = "Ready"
    /\ "a" \in last.ready
    /\ Len(tasks["a"].DependsOn) = 2
    /\ "b" \in DOMAIN tasks /\ "b" \notin last.ready

(***************************************************************************)
(* C5: UpdateStatus changes a status only along the legal transition table *)
(* pending->{assigned,cancelled}, assigned->{running,cancelled,failed},    *)
(* running->{complete,failed,cancelled,retrying}, failed->{retrying,       *)
(* cancelled}, retrying->{pending}; complete and cancelled never change.   *)
(***************************************************************************)
LegalTransitions ==
    {<<StatusPending, StatusAssigned>>, <<StatusPending, StatusCancelled>>,
     <<StatusAssigned, StatusRunning>>, <<StatusAssigned, StatusCancelled>>,
     <<StatusAssigned, StatusFailed>>,
     <<StatusRunning, StatusComplete>>, <<StatusRunning, StatusFailed>>,
     <<StatusRunning, StatusCancelled>>, <<StatusRunning, StatusRetrying>>,
     <<StatusFailed, StatusRetrying>>, <<StatusFailed, StatusCancelled>>,
     <<StatusRetrying, StatusPending>>}

C5_OnlyLegalTransitions ==
    [][(last'.op = "UpdateStatus" /\ ~last'.err
            /\ tasks'[last'.id].Status # tasks[last'.id].Status)
        => <<tasks[last'.id].Status, tasks'[last'.id].Status>> \in LegalTransitions]_vars

(***************************************************************************)
(* C6: Ready() is monotonic under completion: when UpdateStatus moves one  *)
(* task to complete, every other task that was ready is still ready.       *)
(***************************************************************************)
C6_ReadyMonotonic ==
    [][(last'.op = "UpdateStatus" /\ ~last'.err
            /\ tasks'[last'.id].Status = StatusComplete)
        => (Ready(tasks) \ {last'.id}) \subseteq Ready(tasks')]_vars

\* b has just been completed and a, which does not depend on b, is still ready
C6_Witness ==
    /\ last.op = "UpdateStatus" /\ ~last.err
    /\ last.id = "b" /\ last.old = StatusRunning
    /\ tasks["b"].Status = StatusComplete
    /\ "a" \in Ready(tasks)
    /\ "b" \notin Range(tasks["a"].DependsOn)

(***************************************************************************)
(* internal/bus/bus.go : the message bus                                   *)
(***************************************************************************)
MaxPublishes == 2   \* Publish calls in a run
MaxSubs == 3        \* Subscribe calls in a run
MaxCap == 1         \* largest history cap given to New

DefaultMaxHistory == 10000

Types == {"t"}              \* message types that get published
Wildcard == "*"             \* the key SubscribeAll subscribes to
Fns == {"f", "p"}           \* handler functions: f returns, p panics
Procs == {1, 2}             \* threads calling the bus
Publishers == {1}           \* the threads that publish
Subscribers == {2}          \* the threads that subscribe and unsubscribe

HandlerPanics(fn) == fn = "p"

\* New(maxHistory): the cap the bus is built with
New(maxHistory) == IF maxHistory <= 0 THEN DefaultMaxHistory ELSE maxHistory

\* b.handlers[k]: the nil slice for a key never subscribed to
Entries(h, k) == IF k \in DOMAIN h THEN h[k] ELSE <<>>

\* the locals of a thread that is in no bus call
NoBusCall == [op |-> "none", msg |-> <<>>, specific |-> <<>>,
              wildcard |-> <<>>, next |-> 1, invoked |-> <<>>, panics |-> 0,
              id |-> 0, msgType |-> "", fn |-> "", ids |-> <<>>,
              n |-> 0, result |-> <<>>]

\* Subscribe, first half: id := b.nextID.Add(1)
SubscribeBegin(p) ==
    /\ p \in Subscribers
    /\ pc[p] = "idle"
    /\ nextID < MaxSubs
    /\ \E msgType \in Types \cup {Wildcard} : \E h \in Fns :
          call' = [call EXCEPT ![p] = [NoBusCall EXCEPT !.op = "Subscribe",
                                          !.id = nextID + 1, !.msgType = msgType, !.fn = h]]
    /\ nextID' = nextID + 1
    /\ pc' = [pc EXCEPT ![p] = "subscribe"]
    /\ UNCHANGED <<handlers, history, maxHist, subs, pubCount, graphVars, guardVars, workVars>>

\* Subscribe, second half: the append under the lock; the handle is returned
SubscribeAppend(p) ==
    /\ pc[p] = "subscribe"
    /\ handlers' = (call[p].msgType :>
                        Append(Entries(handlers, call[p].msgType),
                               [id |-> call[p].id, fn |-> call[p].fn])) @@ handlers
    /\ subs' = subs \cup {[id |-> call[p].id, msgType |-> call[p].msgType,
                            unsubscribed |-> FALSE]}
    /\ call' = [call EXCEPT ![p] = NoBusCall]
    /\ pc' = [pc EXCEPT ![p] = "idle"]
    /\ UNCHANGED <<history, maxHist, nextID, pubCount, graphVars, guardVars, workVars>>

\* a removal that fills the hole with the last entry instead of closing it
RemoveIdBySwap(entries, id) ==
    LET hits == {i \in 1..Len(entries) : entries[i].id = id}
    IN IF hits = {} THEN entries
       ELSE LET i == CHOOSE i \in hits : \A j \in hits : i <= j
                n == Len(entries)
            IN IF i = n THEN SubSeq(entries, 1, n - 1)
               ELSE SubSeq(entries, 1, i - 1) \o <<entries[n]>> \o SubSeq(entries, i + 1, n - 1)

\* a removal that drops the last entry when the id is not there any more
RemoveIdOrLast(entries, id) ==
    LET hits == {i \in 1..Len(entries) : entries[i].id = id}
    IN IF hits = {} THEN SubSeq(entries, 1, Len(entries) - 1)
       ELSE LET i == CHOOSE i \in hits : \A j \in hits : i <= j
            IN SubSeq(entries, 1, i - 1) \o SubSeq(entries, i + 1, Len(entries))

\* the loop of unsubscribe: drop the first entry with this id, if there is one
RemoveId(entries, id) ==
    LET hits == {i \in 1..Len(entries) : entries[i].id = id}
    IN IF hits = {} THEN entries
       ELSE LET i == CHOOSE i \in hits : \A j \in hits : i <= j
            IN SubSeq(entries, 1, i - 1) \o SubSeq(entries, i + 1, Len(entries))

\* Subscription.Unsubscribe -> MessageBus.unsubscribe.  The handle remembers
\* that it has been used.
Unsubscribe(p) ==
    /\ p \in Subscribers
    /\ pc[p] = "idle"
    /\ \E s \in subs :
          /\ handlers' = (s.msgType :> RemoveId(Entries(handlers, s.msgType), s.id)) @@ handlers
          /\ subs' = (subs \ {s}) \cup {[s EXCEPT !.unsubscribed = TRUE]}
    /\ call' = [call EXCEPT ![p] = NoBusCall]
    /\ UNCHANGED <<history, maxHist, nextID, pubCount, pc, graphVars, guardVars, workVars>>

\* a trim that keeps the oldest cap messages instead of the newest
TrimmedOldest(h, cap) == IF Len(h) > cap THEN SubSeq(h, 1, cap) ELSE h

\* the trim of the history to the last maxHist messages
Trimmed(h, cap) == IF Len(h) > cap THEN SubSeq(h, Len(h) - cap + 1, Len(h)) ELSE h

\* the copy of the handler functions of a key, made under the lock
FnsOf(entries) == [i \in 1..Len(entries) |-> entries[i].fn]

\* which subscription each copied handler function belongs to (a closure is
\* told apart by the subscription it was passed to)
IdsOf(entries) == [i \in 1..Len(entries) |-> entries[i].id]

\* Publish, the part under the lock: record the message, copy the handlers.
\* Messages are told apart by a serial payload.
PublishLocked(p, type) ==
    LET msg == [Type |-> type, Payload |-> pubCount + 1]
    IN /\ pc[p] = "idle"
       /\ pubCount < MaxPublishes
       /\ history' = Trimmed(Append(history, msg), maxHist)
       /\ call' = [call EXCEPT ![p] = [NoBusCall EXCEPT !.op = "Publish", !.msg = msg,
                          !.specific = FnsOf(Entries(handlers, type)),
                          !.wildcard = FnsOf(Entries(handlers, Wildcard)),
                          !.ids = IdsOf(Entries(handlers, type))
                                      \o IdsOf(Entries(handlers, Wildcard))]]
       /\ pubCount' = pubCount + 1
       /\ pc' = [pc EXCEPT ![p] = "handlers"]
       /\ UNCHANGED <<handlers, maxHist, nextID, subs, graphVars, guardVars, workVars>>

\* Publish of a message of one of the message types, by a publishing thread
PublishBegin(p) ==
    /\ p \in Publishers
    /\ \E type \in Types : PublishLocked(p, type)

\* Publish by any thread, of a message of any type, the string "*" included
PublishAny(p) == \E type \in Types \cup {Wildcard} : PublishLocked(p, type)

\* MessageBus.History(n): a copy of the last n messages, all of them when n
\* is not positive or exceeds what is kept
History(h, n) ==
    LET m == IF n <= 0 \/ n > Len(h) THEN Len(h) ELSE n
    IN SubSeq(h, Len(h) - m + 1, Len(h))

\* the arguments History is called with
HistoryArgs == -1..(MaxPublishes + 1)

\* one call of History, under the read lock
CallHistory(p) ==
    /\ pc[p] = "idle"
    /\ \E n \in HistoryArgs :
          call' = [call EXCEPT ![p] = [NoBusCall EXCEPT !.op = "History", !.n = n,
                                          !.result = History(history, n)]]
    /\ UNCHANGED <<handlers, history, maxHist, nextID, subs, pubCount, pc,
                   graphVars, guardVars, workVars>>

\* handler(msg): how the call of a handler function ends
Invoke(fn) == IF HandlerPanics(fn) THEN "panic" ELSE "return"

\* a wrapper without the deferred recover: the panic leaves Publish
Unrecovered(outcome) == IF outcome = "panic" THEN "unwind" ELSE "continue"

\* defer func() { if r := recover(); r != nil { log.Printf(...) } }()
Recovered(outcome) == "continue"

\* Publish, the two loops (specific first, then wildcard): one handler call
RunHandler(p) ==
    LET all == call[p].specific \o call[p].wildcard
        k == call[p].next
    IN /\ pc[p] = "handlers"
       /\ k <= Len(all)
       /\ LET outcome == Invoke(all[k])
          IN IF Recovered(outcome) = "continue"
             THEN /\ call' = [call EXCEPT ![p].next = k + 1,
                                          ![p].invoked = Append(@, all[k]),
                                          ![p].panics = @ + (IF outcome = "panic" THEN 1 ELSE 0)]
                  /\ UNCHANGED pc
             ELSE /\ pc' = [pc EXCEPT ![p] = "crashed"]
                  /\ UNCHANGED call
       /\ UNCHANGED <<handlers, history, maxHist, nextID, subs, pubCount, graphVars, guardVars, workVars>>

\* Publish returns to its caller
PublishReturn(p) ==
    /\ pc[p] = "handlers"
    /\ call[p].next > Len(call[p].specific) + Len(call[p].wildcard)
    /\ call' = [call EXCEPT ![p] = NoBusCall]
    /\ pc' = [pc EXCEPT ![p] = "idle"]
    /\ UNCHANGED <<handlers, history, maxHist, nextID, subs, pubCount, graphVars, guardVars, workVars>>

InitBus ==
    /\ handlers = <<>>
    /\ history = <<>>
    /\ \E maxHistory \in 0..MaxCap : maxHist = New(maxHistory)
    /\ nextID = 0
    /\ subs = {}
    /\ pubCount = 0
    /\ pc = [p \in Procs |-> "idle"]
    /\ call = [p \in Procs |-> NoBusCall]
    /\ GraphUnused /\ GuardUnused /\ WorkUnused

NextBus ==
    \E p \in Procs :
        \/ SubscribeBegin(p)
        \/ SubscribeAppend(p)
        \/ Unsubscribe(p)
        \/ PublishBegin(p)
        \/ RunHandler(p)
        \/ PublishReturn(p)

SpecBus == InitBus /\ [][NextBus]_vars

\* the bus with every thread publishing, messages of type "*" included
NextBusAny ==
    \E p \in Procs :
        \/ SubscribeBegin(p)
        \/ SubscribeAppend(p)
        \/ Unsubscribe(p)
        \/ PublishAny(p)
        \/ RunHandler(p)
        \/ PublishReturn(p)

SpecBusAny == InitBus /\ [][NextBusAny]_vars

\* a bus without subscribers: threads publish and read the history
NextHistory ==
    \E p \in Procs :
        \/ PublishAny(p)
        \/ PublishReturn(p)
        \/ CallHistory(p)

SpecHistory == InitBus /\ [][NextHistory]_vars

(***************************************************************************)
(* C1: a panic in a handler is contained.  Publish returns to its caller,  *)
(* every handler that was subscribed to the type or to the wildcard when   *)
(* Publish began has been invoked, the ones after the panicking one too,   *)
(* and the message is in the history.                                      *)
(***************************************************************************)
\* the message with this payload has not been pushed out by later ones
StillKept(msg) == pubCount - msg.Payload < maxHist

C1_PanicContained ==
    /\ [](\A p \in Procs :
            /\ pc[p] # "crashed"
            /\ pc[p] = "handlers" =>
                  /\ call[p].invoked =
                        SubSeq(call[p].specific \o call[p].wildcard, 1, call[p].next - 1)
                  /\ StillKept(call[p].msg) => call[p].msg \in Range(history))
    /\ [][\A p \in Procs :
            (pc[p] = "handlers" /\ pc'[p] = "idle") =>
                call[p].invoked = call[p].specific \o call[p].wildcard]_vars

\* a Publish is about to return whose first handler panicked, with a later
\* specific handler and a wildcard handler invoked after it
C1_Witness ==
    \E p \in Procs :
        /\ pc[p] = "handlers"
        /\ Len(call[p].specific) >= 2 /\ Len(call[p].wildcard) >= 1
        /\ HandlerPanics(call[p].specific[1])
        /\ call[p].panics >= 1
        /\ call[p].invoked = call[p].specific \o call[p].wildcard
        /\ ENABLED PublishReturn(p)
        /\ call[p].msg \in Range(history)

(***************************************************************************)
(* The safety guard (internal/safety).  A string is the sequence of its    *)
(* characters, so that prefixes, separators and case are what they are in  *)
(* the program.                                                            *)
(***************************************************************************)
MaxPathLen == 5     \* longest path handed to CheckPath, in characters

MinOf(S) == CHOOSE x \in S : \A y \in S : x <= y
MaxOf(S) == CHOOSE x \in S : \A y \in S : y <= x

\* strings.HasPrefix
HasPrefix(s, prefix) == Len(prefix) <= Len(s) /\ SubSeq(s, 1, Len(prefix)) = prefix

\* the prefix relation on sequences of path components
IsPrefixOf(p, s) == Len(p) <= Len(s) /\ SubSeq(s, 1, Len(p)) = p

\* strings.ToLower, one character
Lower(c) ==
    CASE c = "E" -> "e" [] c = "H" -> "h" [] c = "M" -> "m"
      [] c = "R" -> "r" [] c = "S" -> "s" [] OTHER -> c

\* strings.ToLower
ToLower(s) == [i \in 1..Len(s) |-> Lower(s[i])]

\* strings.TrimSpace
RECURSIVE TrimSpace(_)
TrimSpace(s) ==
    IF s = <<>> THEN s
    ELSE IF s[1] = " " THEN TrimSpace(Tail(s))
    ELSE IF s[Len(s)] = " " THEN TrimSpace(SubSeq(s, 1, Len(s) - 1))
    ELSE s

Separator == "/"
Dot == <<".">>
DotDot == <<".", ".">>

\* filepath.IsAbs
IsAbs(p) == Len(p) > 0 /\ p[1] = Separator

\* the elements of a path: what stands between separators, empty ones dropped
RECURSIVE Split(_)
Split(p) ==
    LET seps == {i \in 1..Len(p) : p[i] = Separator}
    IN IF p = <<>> THEN <<>>
       ELSE IF seps = {} THEN <<p>>
       ELSE LET i == MinOf(seps)
            IN (IF i = 1 THEN <<>> ELSE <<SubSeq(p, 1, i - 1)>>)
                   \o Split(SubSeq(p, i + 1, Len(p)))

\* elements joined by the separator
RECURSIVE JoinElems(_)
JoinElems(elems) ==
    IF elems = <<>> THEN <<>>
    ELSE IF Len(elems) = 1 THEN elems[1]
    ELSE elems[1] \o <<Separator>> \o JoinElems(Tail(elems))

\* the loop of filepath.Clean: "." is dropped, ".." takes back the element
\* before it, stays at the root of a rooted path, is kept otherwise
RECURSIVE CleanElems(_, _, _)
CleanElems(elems, out, rooted) ==
    IF elems = <<>> THEN out
    ELSE LET e == Head(elems)
             rest == Tail(elems)
         IN IF e = Dot THEN CleanElems(rest, out, rooted)
            ELSE IF e = DotDot
            THEN IF out # <<>> /\ out[Len(out)] # DotDot
                 THEN CleanElems(rest, SubSeq(out, 1, Len(out) - 1), rooted)
                 ELSE IF rooted THEN CleanElems(rest, out, rooted)
                 ELSE CleanElems(rest, Append(out, e), rooted)
            ELSE CleanElems(rest, Append(out, e), rooted)

\* filepath.Clean
Clean(p) ==
    LET elems == CleanElems(Split(p), <<>>, IsAbs(p))
    IN IF IsAbs(p) THEN <<Separator>> \o JoinElems(elems)
       ELSE IF elems = <<>> THEN Dot
       ELSE JoinElems(elems)

\* filepath.Join of two elements: empty elements are ignored, the result is cleaned
Join(a, b) ==
    IF a = <<>> /\ b = <<>> THEN <<>>
    ELSE IF a = <<>> THEN Clean(b)
    ELSE IF b = <<>> THEN Clean(a)
    ELSE Clean(a \o <<Separator>> \o b)

\* filepath.Dir and filepath.Base of a clean rooted path
Dir(p) ==
    LET elems == Split(p)
    IN IF elems = <<>> THEN p
       ELSE <<Separator>> \o JoinElems(SubSeq(elems, 1, Len(elems) - 1))

Base(p) ==
    LET elems == Split(p)
    IN IF elems = <<>> THEN <<Separator>> ELSE elems[Len(elems)]

\* the working directory of the process, for filepath.Abs
Getwd == <<"/">>

\* filepath.Abs
Abs(p) == IF IsAbs(p) THEN Clean(p) ELSE Join(Getwd, p)

\* filepath.Rel: both paths cleaned, the common leading elements dropped,
\* one ".." for each element left of base, then what is left of targ
Rel(base, targ) ==
    LET b == Split(Clean(base))
        t == Split(Clean(targ))
        same == {k \in 0..Len(b) : k <= Len(t) /\ SubSeq(b, 1, k) = SubSeq(t, 1, k)}
        k == MaxOf(same)
        up == [i \in 1..(Len(b) - k) |-> DotDot]
        elems == up \o SubSeq(t, k + 1, Len(t))
    IN IF IsAbs(base) # IsAbs(targ) \/ (k < Len(b) /\ b[k + 1] = DotDot)
       THEN [err |-> TRUE, rel |-> <<>>]
       ELSE [err |-> FALSE, rel |-> IF elems = <<>> THEN Dot ELSE JoinElems(elems)]

\* containment by string prefix, as a check without filepath.Rel would do it
isWithinDirByPrefix(base, target) == HasPrefix(target, base)

\* isWithinDir
isWithinDir(base, target) ==
    LET r == Rel(base, target)
    IN IF r.err THEN FALSE
       ELSE IF r.rel = Dot THEN TRUE
       ELSE IF r.rel = DotDot THEN FALSE
       ELSE ~HasPrefix(r.rel, DotDot \o <<Separator>>)

(* The file system the guard looks at: the directories that exist and the  *)
(* symbolic links with their targets.  /l links to the directory /r, and   *)
(* /r/l links to /rr, which does not exist.                                *)
Dirs == {<<>>, <<<<"r">>>>}

Links == (<<<<"l">>>> :> <<"/", "r">>) @@ (<<<<"r">>, <<"l">>>> :> <<"/", "r", "r">>)

\* follow the elements from a directory, symbolic links included
RECURSIVE EvalFrom(_, _, _)
EvalFrom(dir, elems, fuel) ==
    IF elems = <<>> THEN [err |-> FALSE, dir |-> dir]
    ELSE LET next == Append(dir, Head(elems))
         IN IF next \in Dirs THEN EvalFrom(next, Tail(elems), fuel)
            ELSE IF next \in DOMAIN Links /\ fuel > 0
            THEN EvalFrom(<<>>, Split(Links[next]) \o Tail(elems), fuel - 1)
            ELSE [err |-> TRUE, dir |-> <<>>]

\* filepath.EvalSymlinks of a clean rooted path
EvalSymlinks(p) ==
    LET r == EvalFrom(<<>>, Split(p), Cardinality(DOMAIN Links))
    IN [err |-> r.err, path |-> <<Separator>> \o JoinElems(r.dir)]

\* os.Lstat succeeds: the parent resolves to a directory that has the entry
LstatOk(p) ==
    LET elems == Split(p)
        parent == EvalFrom(<<>>, SubSeq(elems, 1, Len(elems) - 1), Cardinality(DOMAIN Links))
    IN \/ elems = <<>>
       \/ /\ ~parent.err
          /\ Append(parent.dir, elems[Len(elems)]) \in Dirs \cup DOMAIN Links

\* the re-appending of the missing suffix, last collected first
RECURSIVE JoinSuffix(_, _)
JoinSuffix(resolved, suffix) ==
    IF suffix = <<>> THEN resolved
    ELSE JoinSuffix(Join(resolved, suffix[Len(suffix)]), SubSeq(suffix, 1, Len(suffix) - 1))

\* the loop of resolvePathWithSymlinks
RECURSIVE resolveLoop(_, _, _)
resolveLoop(path, cur, suffix) ==
    IF LstatOk(cur)
    THEN LET r == EvalSymlinks(cur)
         IN IF r.err THEN [err |-> TRUE, path |-> <<>>]
            ELSE [err |-> FALSE, path |-> JoinSuffix(r.path, suffix)]
    ELSE IF Dir(cur) = cur THEN [err |-> FALSE, path |-> Clean(path)]
    ELSE resolveLoop(path, Dir(cur), Append(suffix, Base(cur)))

resolvePathWithSymlinks(path) == resolveLoop(path, path, <<>>)

\* canonicalPath
canonicalPath(path) ==
    LET abs == Abs(path)
        r == resolvePathWithSymlinks(abs)
    IN IF r.err THEN Clean(abs) ELSE Clean(r.path)

\* normalizeSafetyConfig.  The modes offered are written in lower case and
\* without blanks, the form the lowering and trimming of the mode leaves.
normalizeSafetyConfig(cfg) ==
    [cfg EXCEPT
        !.Mode = IF cfg.Mode = "permissive" THEN "permissive" ELSE "strict",
        !.EnforceOnAdapters = IF cfg.EnforceOnAdapters = <<>> THEN <<"exec">> ELSE @,
        !.BlockedPatterns = IF cfg.BlockedPatterns = <<>> THEN cfg.BlockedCommands ELSE @]

\* the loop of NewGuard over cfg.AllowedPaths
RECURSIVE resolveAllowed(_, _)
resolveAllowed(absRoot, paths) ==
    IF paths = <<>> THEN <<>>
    ELSE LET p == Head(paths)
         IN <<canonicalPath(IF IsAbs(p) THEN p ELSE Join(absRoot, p))>>
                \o resolveAllowed(absRoot, Tail(paths))

\* NewGuard
NewGuard(cfg, projectRoot) ==
    LET absRoot == canonicalPath(projectRoot)
        resolved == resolveAllowed(absRoot, cfg.AllowedPaths)
    IN [cfg |-> normalizeSafetyConfig(cfg),
        projectRoot |-> absRoot,
        resolvedPaths |-> IF resolved = <<>> THEN <<absRoot>> ELSE resolved]

\* the path CheckPath canonicalises: a relative one is joined to the root
Rooted(g, path) == IF IsAbs(path) THEN path ELSE Join(g.projectRoot, path)

\* Guard.CheckPath: the error it returns, "" for nil
CheckPath(g, path) ==
    IF \E i \in 1..Len(g.resolvedPaths) :
            isWithinDir(g.resolvedPaths[i], canonicalPath(Rooted(g, path)))
    THEN ""
    ELSE "outside allowed directories"

\* a configuration with nothing set
NoConfig ==
    [Mode |-> "", AllowedPaths |-> <<>>, BlockedCommands |-> <<>>,
     BlockedExecutables |-> <<>>, BlockedPatterns |-> <<>>,
     AllowExecutables |-> <<>>, EnforceOnAdapters |-> <<>>]

NoCheck == [op |-> "none", input |-> <<>>, err |-> ""]

\* the characters of the paths, the project roots and the allowed_paths tried
PathChars == {"/", ".", "r", "l"}
ProjectRoots == {<<"/", "r">>, <<"/", "l">>, <<"/">>}
AllowedPathLists == {<<>>, <<<<"/", "r", "/", "r">>>>, <<<<"r">>, <<"/", "l">>>>}

\* one call of CheckPath on a guard that has been built
CallCheckPath ==
    /\ check.op = "none"
    /\ \E path \in SeqsUpTo(PathChars, MaxPathLen) :
        /\ check' = [op |-> "CheckPath", input |-> path, err |-> CheckPath(guard, path)]
        /\ UNCHANGED <<guard, graphVars, busVars, workVars>>

InitPath ==
    /\ \E root \in ProjectRoots : \E allowed \in AllowedPathLists :
          guard = NewGuard([NoConfig EXCEPT !.AllowedPaths = allowed], root)
    /\ check = NoCheck
    /\ GraphUnused /\ BusUnused /\ WorkUnused

NextPath == CallCheckPath

SpecPath == InitPath /\ [][NextPath]_vars

(***************************************************************************)
(* C7: CheckPath(p) accepts if and only if the canonical form of p, a      *)
(* relative p joined to the project root, equals an allowed canonical root *)
(* or lies below one element by element.  A path that only shares a string *)
(* prefix with an allowed root, or that leaves it through "..", is denied. *)
(***************************************************************************)
\* the canonical form of the path last checked
Canonical == canonicalPath(Rooted(guard, check.input))

\* the canonical form is an allowed root or an element-wise descendant of one
BelowAllowedRoot ==
    \E i \in 1..Len(guard.resolvedPaths) :
        IsPrefixOf(Split(guard.resolvedPaths[i]), Split(Canonical))

C7_CheckPathContainment ==
    check.op = "CheckPath" => (check.err = "" <=> BelowAllowedRoot)

\* a sibling whose name starts with the name of the allowed root was denied
C7_Witness ==
    /\ check.op = "CheckPath"
    /\ check.err # ""
    /\ \E i \in 1..Len(guard.resolvedPaths) :
          /\ guard.resolvedPaths[i] # <<Separator>>
          /\ HasPrefix(Canonical, guard.resolvedPaths[i])

(***************************************************************************)
(* The command policy (checkCommandPolicy).  A script is the sequence of   *)
(* its lexemes: unquoted words, and ";" between simple commands.  A word   *)
(* of the form $(w) is a command substitution that holds the call w.       *)
(***************************************************************************)
MaxScriptLen == 4   \* longest script handed to CheckCommand, in lexemes

Sep == <<";">>

\* the simple commands of a script: what stands between the separators
RECURSIVE SplitCalls(_)
SplitCalls(script) ==
    LET seps == {i \in 1..Len(script) : script[i] = Sep}
    IN IF script = <<>> THEN <<>>
       ELSE IF seps = {} THEN <<script>>
       ELSE LET i == MinOf(seps)
            IN (IF i = 1 THEN <<>> ELSE <<SubSeq(script, 1, i - 1)>>)
                   \o SplitCalls(SubSeq(script, i + 1, Len(script)))

\* a word that is a command substitution $(w) around a one-word call w
Substituted(w) == Len(w) >= 4 /\ w[1] = "$" /\ w[2] = "(" /\ w[Len(w)] = ")"

\* the CallExpr nodes below a word, outermost first
RECURSIVE CallsInWord(_)
CallsInWord(w) ==
    IF Substituted(w)
    THEN LET inner == SubSeq(w, 3, Len(w) - 1)
         IN <<<<inner>>>> \o CallsInWord(inner)
    ELSE <<>>

\* syntax.Walk over the statements: each CallExpr, then the ones below its
\* words, in the order of the words
RECURSIVE WalkCalls(_)
WalkCalls(cmds) ==
    IF cmds = <<>> THEN <<>>
    ELSE LET RECURSIVE Below(_)
             Below(words) == IF words = <<>> THEN <<>>
                             ELSE CallsInWord(Head(words)) \o Below(Tail(words))
         IN <<Head(cmds)>> \o Below(Head(cmds)) \o WalkCalls(Tail(cmds))

\* a walk that stays at the top level of the script
ParseTopLevel(script) ==
    LET bad == \E i \in 1..Len(script) :
                   script[i] = Sep /\ (i = 1 \/ script[i - 1] = Sep)
    IN [err |-> bad, calls |-> IF bad THEN <<>> ELSE SplitCalls(script)]

\* parser.Parse and the CallExpr nodes syntax.Walk visits: a ";" that does
\* not follow a statement is a syntax error
Parse(script) ==
    LET bad == \E i \in 1..Len(script) :
                   script[i] = Sep /\ (i = 1 \/ script[i - 1] = Sep)
    IN [err |-> bad, calls |-> IF bad THEN <<>> ELSE WalkCalls(SplitCalls(script))]

\* wordToToken: the word as printed, and whether it holds a substitution
wordToToken(w) == [token |-> w, dynamic |-> \E i \in 1..Len(w) : w[i] = "$"]

\* an extraction that lets a substitution in any word mark the name dynamic
commandInvocationAnyWord(words) ==
    LET args == [i \in 1..Len(words) |-> ToLower(TrimSpace(wordToToken(words[i]).token))]
    IN [Name |-> args[1], Args |-> args,
        NameDynamic |-> \E i \in 1..Len(words) : wordToToken(words[i]).dynamic]

\* the body of the Walk wordsback of parseCommandInvocations for one CallExpr
commandInvocation(words) ==
    LET args == [i \in 1..Len(words) |-> ToLower(TrimSpace(wordToToken(words[i]).token))]
    IN [Name |-> args[1], Args |-> args,
        NameDynamic |-> wordToToken(words[1]).dynamic]

\* parseCommandInvocations
parseCommandInvocations(script) ==
    LET p == Parse(script)
    IN [err |-> p.err,
        invs |-> [i \in 1..Len(p.calls) |-> commandInvocation(p.calls[i])]]

\* parseRuleTokens: the tokens of the first call of the pattern, or, when it
\* does not parse, its lower-cased fields
parseRuleTokens(pattern) ==
    LET r == parseCommandInvocations(pattern)
    IN IF ~r.err /\ Len(r.invs) > 0 THEN r.invs[1].Args
       ELSE [i \in 1..Len(pattern) |-> ToLower(pattern[i])]

\* buildBlockedRules: BlockedPatterns then BlockedCommands, empty rules skipped
buildBlockedRules(cfg) ==
    LET patterns == cfg.BlockedPatterns \o cfg.BlockedCommands
    IN SelectSeq([i \in 1..Len(patterns) |-> parseRuleTokens(patterns[i])],
                 LAMBDA rule : Len(rule) > 0)

\* matchesRule
matchesRule(args, rule) ==
    /\ Len(rule) # 0
    /\ Len(args) >= Len(rule)
    /\ \A i \in 1..Len(rule) : args[i] = rule[i]

\* toLowerSet
toLowerSet(items) == {ToLower(TrimSpace(items[i])) : i \in 1..Len(items)} \ {<<>>}

\* an indirection test that knows eval, "." and source only
isIndirectExecutionNoShell(inv) ==
    /\ Len(inv.Args) # 0
    /\ inv.Args[1] \in {<<"e", "v", "a", "l">>, <<".">>, <<"s", "o", "u", "r", "c", "e">>}

\* isIndirectExecution
isIndirectExecution(inv) ==
    /\ Len(inv.Args) # 0
    /\ \/ inv.Args[1] \in {<<"e", "v", "a", "l">>, <<".">>, <<"s", "o", "u", "r", "c", "e">>}
       \/ /\ inv.Args[1] \in {<<"s", "h">>, <<"b", "a", "s", "h">>, <<"z", "s", "h">>, <<"k", "s", "h">>}
          /\ Len(inv.Args) >= 2
          /\ inv.Args[2] = <<"-", "c">>

\* hasFlag, hasArg, hasPrefixArg
hasFlag(args, flags) == \E i \in 1..Len(args) : args[i] \in flags

hasArg(args, value) == \E i \in 1..Len(args) : args[i] = value

hasPrefixArg(args, prefix) == \E i \in 1..Len(args) : HasPrefix(args[i], prefix)

\* a test that takes rm with one of the flags for destructive, whatever it removes
RECURSIVE isHighConfidenceAnyTarget(_)
isHighConfidenceAnyTarget(args) ==
    IF Len(args) = 0 THEN FALSE
    ELSE IF args[1] = <<"r", "m">>
    THEN hasFlag(args, {<<"-", "r", "f">>, <<"-", "f", "r">>, <<"-", "-", "n", "o", "-", "p", "r", "e", "s", "e", "r", "v", "e", "-", "r", "o", "o", "t">>})
    ELSE IF HasPrefix(args[1], <<"m", "k", "f", "s">>) THEN TRUE
    ELSE IF args[1] = <<"d", "d">> THEN hasPrefixArg(args, <<"i", "f", "=", "/", "d", "e", "v", "/", "z", "e", "r", "o">>)
    ELSE IF args[1] = <<"s", "u", "d", "o">> /\ Len(args) > 1 THEN isHighConfidenceAnyTarget(Tail(args))
    ELSE FALSE

\* isHighConfidenceInvocation
RECURSIVE isHighConfidenceInvocation(_)
isHighConfidenceInvocation(args) ==
    IF Len(args) = 0 THEN FALSE
    ELSE IF args[1] = <<"r", "m">>
    THEN hasFlag(args, {<<"-", "r", "f">>, <<"-", "f", "r">>, <<"-", "-", "n", "o", "-", "p", "r", "e", "s", "e", "r", "v", "e", "-", "r", "o", "o", "t">>}) /\ hasArg(args, <<"/">>)
    ELSE IF HasPrefix(args[1], <<"m", "k", "f", "s">>) THEN TRUE
    ELSE IF args[1] = <<"d", "d">> THEN hasPrefixArg(args, <<"i", "f", "=", "/", "d", "e", "v", "/", "z", "e", "r", "o">>)
    ELSE IF args[1] = <<"s", "u", "d", "o">> /\ Len(args) > 1 THEN isHighConfidenceInvocation(Tail(args))
    ELSE FALSE

\* isHighConfidenceRule
isHighConfidenceRule(rule) == isHighConfidenceInvocation(rule)

\* a loop body that honours the allow-list in strict mode only
checkInvocationStrictAllow(cfg, inv) ==
    LET name == ToLower(inv.Name)
        permissive == cfg.Mode = "permissive"
        strict == cfg.Mode = "strict"
        rules == buildBlockedRules(cfg)
        denying == {i \in 1..Len(rules) :
                       /\ matchesRule(inv.Args, rules[i])
                       /\ ~(/\ permissive
                            /\ ~isHighConfidenceInvocation(inv.Args)
                            /\ ~isHighConfidenceRule(rules[i]))}
    IN IF Len(inv.Args) = 0 THEN "continue"
       ELSE IF name = <<>> \/ inv.NameDynamic
       THEN IF strict THEN "dynamic command name" ELSE "continue"
       ELSE IF strict /\ name \in toLowerSet(cfg.AllowExecutables) THEN "continue"
       ELSE IF isIndirectExecution(inv)
       THEN IF strict THEN "indirect command execution" ELSE "continue"
       ELSE IF name \in toLowerSet(cfg.BlockedExecutables)
       THEN IF permissive /\ ~isHighConfidenceInvocation(inv.Args)
            THEN "continue" ELSE "blocked executable"
       ELSE IF denying # {} THEN "blocked pattern"
       ELSE "continue"

\* the body of the loop of checkCommandPolicy for one invocation: "continue",
\* or the error returned
checkInvocation(cfg, inv) ==
    LET name == ToLower(inv.Name)
        permissive == cfg.Mode = "permissive"
        strict == cfg.Mode = "strict"
        rules == buildBlockedRules(cfg)
        denying == {i \in 1..Len(rules) :
                       /\ matchesRule(inv.Args, rules[i])
                       /\ ~(/\ permissive
                            /\ ~isHighConfidenceInvocation(inv.Args)
                            /\ ~isHighConfidenceRule(rules[i]))}
    IN IF Len(inv.Args) = 0 THEN "continue"
       ELSE IF name = <<>> \/ inv.NameDynamic
       THEN IF strict THEN "dynamic command name" ELSE "continue"
       ELSE IF name \in toLowerSet(cfg.AllowExecutables) THEN "continue"
       ELSE IF isIndirectExecution(inv)
       THEN IF strict THEN "indirect command execution" ELSE "continue"
       ELSE IF name \in toLowerSet(cfg.BlockedExecutables)
       THEN IF permissive /\ ~isHighConfidenceInvocation(inv.Args)
            THEN "continue" ELSE "blocked executable"
       ELSE IF denying # {} THEN "blocked pattern"
       ELSE "continue"

\* the loop of checkCommandPolicy: the first error ends it
RECURSIVE checkInvocations(_, _)
checkInvocations(cfg, invs) ==
    IF invs = <<>> THEN ""
    ELSE LET v == checkInvocation(cfg, Head(invs))
         IN IF v = "continue" THEN checkInvocations(cfg, Tail(invs)) ELSE v

\* checkCommandPolicy: the error it returns, "" for nil
checkCommandPolicy(g, script) ==
    LET r == parseCommandInvocations(script)
    IN IF script = <<>> THEN ""
       ELSE IF r.err
       THEN IF g.cfg.Mode = "strict" THEN "parse failed" ELSE ""
       ELSE checkInvocations(g.cfg, r.invs)

\* Guard.CheckCommand
CheckCommand(g, script) == checkCommandPolicy(g, script)

\* one call of CheckCommand on a guard that has been built
CallCheckCommand(lexemes) ==
    /\ check.op = "none"
    /\ \E script \in SeqsUpTo(lexemes, MaxScriptLen) :
        /\ check' = [op |-> "CheckCommand", input |-> script,
                     err |-> CheckCommand(guard, script)]
        /\ UNCHANGED <<guard, graphVars, busVars, workVars>>

\* the guard built from a configuration of the command policy
InitCommand(modes, allow, blockedExecs, patterns, commands) ==
    /\ \E m \in modes : \E a \in allow : \E b \in blockedExecs :
       \E p \in patterns : \E c \in commands :
          guard = NewGuard([NoConfig EXCEPT !.Mode = m, !.AllowExecutables = a,
                                            !.BlockedExecutables = b,
                                            !.BlockedPatterns = p,
                                            !.BlockedCommands = c], <<"/", "r">>)
    /\ check = NoCheck
    /\ GraphUnused /\ BusUnused /\ WorkUnused

\* scripts and configurations around indirect execution
IndirectLexemes == {Sep, <<"E", "v", "a", "l">>, <<".">>, <<"s", "h">>, <<"-", "c">>, <<"x">>}

InitIndirect ==
    InitCommand({"strict", "permissive", ""},
                {<<>>, <<<<" ", "S", "H", " ">>>>, <<<<"e", "v", "a", "l">>, <<".">>>>},
                {<<>>, <<<<"s", "h">>>>}, {<<>>}, {<<>>})

NextIndirect == CallCheckCommand(IndirectLexemes)

SpecIndirect == InitIndirect /\ [][NextIndirect]_vars

\* scripts and configurations around blocked executables and patterns
BlockedLexemes ==
    {Sep, <<"r", "m">>, <<"-", "r", "f">>, <<"/">>, <<"-", "-", "n", "o", "-", "p", "r", "e", "s", "e", "r", "v", "e", "-", "r", "o", "o", "t">>, <<"m", "k", "f", "s", ".", "e", "x", "t", "4">>, <<"d", "d">>,
     <<"i", "f", "=", "/", "d", "e", "v", "/", "z", "e", "r", "o">>, <<"s", "u", "d", "o">>}

InitBlocked ==
    InitCommand({"strict", "permissive"},
                {<<>>, <<<<"r", "m">>>>},
                {<<>>, <<<<" ", "R", "M", " ">>, <<"d", "d">>>>},
                {<<>>, << <<<<"s", "u", "d", "o">>, <<"r", "m">>>>, <<<<"m", "k", "f", "s", ".", "e", "x", "t", "4">>>> >>},
                {<<>>})

NextBlocked == CallCheckCommand(BlockedLexemes)

SpecBlocked == InitBlocked /\ [][NextBlocked]_vars

\* scripts and configurations around parse failures and dynamic words
DynamicLexemes == {Sep, <<"$", "x">>, <<"r", "m">>, <<"a">>}

InitDynamic ==
    InitCommand({"strict", "permissive", "unknown-mode"},
                {<<>>, <<<<"$", "x">>>>},
                {<<>>, <<<<"r", "m">>>>}, {<<>>},
                {<<>>, << <<<<"r", "m">>, <<"$", "x">>>> >>})

NextDynamic == CallCheckCommand(DynamicLexemes)

SpecDynamic == InitDynamic /\ [][NextDynamic]_vars

(***************************************************************************)
(* What the claims about CheckCommand speak of, said without the code's    *)
(* own tests: the calls of the script last checked and their tokens.       *)
(***************************************************************************)
Checked == check.op = "CheckCommand"
Denied == check.err # ""
Parsed == ~Parse(check.input).err

\* the token lists of the calls of the script last checked
CallTokens ==
    {[i \in 1..Len(c) |-> ToLower(TrimSpace(c[i]))] : c \in Range(Parse(check.input).calls)}

\* the raw calls whose executable name holds a substitution
DynamicNameCalls == {c \in Range(Parse(check.input).calls) : "$" \in Range(c[1])}

StaticName(t) == "$" \notin Range(t[1])

AllowListed(t) == \E a \in Range(guard.cfg.AllowExecutables) : ToLower(TrimSpace(a)) = t[1]

BlockListed(t) == \E b \in Range(guard.cfg.BlockedExecutables) : ToLower(TrimSpace(b)) = t[1]

MatchesPattern(t) ==
    \E rule \in Range(buildBlockedRules(guard.cfg)) : rule # <<>> /\ IsPrefixOf(rule, t)

\* eval, "." or source, or a shell whose first argument is -c
IndirectCall(t) ==
    \/ t[1] \in {<<"e", "v", "a", "l">>, <<".">>, <<"s", "o", "u", "r", "c", "e">>}
    \/ /\ t[1] \in {<<"s", "h">>, <<"b", "a", "s", "h">>, <<"z", "s", "h">>, <<"k", "s", "h">>}
       /\ Len(t) >= 2 /\ t[2] = <<"-", "c">>

\* the tokens after the leading run of sudo (all of them when that is all there is)
RECURSIVE AfterSudo(_)
AfterSudo(t) == IF Len(t) > 1 /\ t[1] = <<"s", "u", "d", "o">> THEN AfterSudo(Tail(t)) ELSE t

\* the destructive forms as the code tells them: rm needs the target "/"
DestructiveForm(t) ==
    LET a == AfterSudo(t)
    IN \/ /\ a[1] = <<"r", "m">>
          /\ Range(a) \cap {<<"-", "r", "f">>, <<"-", "f", "r">>, <<"-", "-", "n", "o", "-", "p", "r", "e", "s", "e", "r", "v", "e", "-", "r", "o", "o", "t">>} # {}
          /\ <<"/">> \in Range(a)
       \/ HasPrefix(a[1], <<"m", "k", "f", "s">>)
       \/ a[1] = <<"d", "d">> /\ \E i \in 1..Len(a) : HasPrefix(a[i], <<"i", "f", "=", "/", "d", "e", "v", "/", "z", "e", "r", "o">>)

\* the destructive forms as listed: rm -rf /, rm --no-preserve-root, mkfs*,
\* dd if=/dev/zero..., or one of these after sudo
ListedForm(t) ==
    LET a == AfterSudo(t)
    IN \/ /\ a[1] = <<"r", "m">>
          /\ \/ Range(a) \cap {<<"-", "r", "f">>, <<"-", "f", "r">>} # {} /\ <<"/">> \in Range(a)
             \/ <<"-", "-", "n", "o", "-", "p", "r", "e", "s", "e", "r", "v", "e", "-", "r", "o", "o", "t">> \in Range(a)
       \/ HasPrefix(a[1], <<"m", "k", "f", "s">>)
       \/ a[1] = <<"d", "d">> /\ \E i \in 1..Len(a) : HasPrefix(a[i], <<"i", "f", "=", "/", "d", "e", "v", "/", "z", "e", "r", "o">>)

(***************************************************************************)
(* C8: in strict mode CheckCommand denies every script that contains an    *)
(* indirect-execution call (eval, "." or source, or sh/bash/zsh/ksh with   *)
(* -c as first argument); in permissive mode no script is denied for that  *)
(* reason.                                                                 *)
(***************************************************************************)
\* the claim as stated
C8_StrictDeniesIndirect ==
    (Checked /\ Parsed) =>
        /\ (guard.cfg.Mode = "strict" /\ \E t \in CallTokens : IndirectCall(t)) => Denied
        /\ guard.cfg.Mode = "permissive" => check.err # "indirect command execution"

\* C8 as amended: in strict mode CheckCommand denies every script that
\* contains an indirect-execution call whose executable, the first word as
\* the guard extracts it, is not allow-listed; in permissive mode no script
\* is denied for that reason.
C8_StrictDeniesIndirectUnlessAllowed ==
    (Checked /\ Parsed) =>
        /\ (/\ guard.cfg.Mode = "strict"
            /\ \E t \in CallTokens : IndirectCall(t) /\ ~AllowListed(t)) => Denied
        /\ guard.cfg.Mode = "permissive" => check.err # "indirect command execution"

\* strict mode denied a script for a shell called with -c that is not allow-listed
C8_Witness ==
    /\ Checked /\ Parsed
    /\ guard.cfg.Mode = "strict"
    /\ \E t \in CallTokens : t[1] = <<"s", "h">> /\ IndirectCall(t) /\ ~AllowListed(t)
    /\ check.err = "indirect command execution"

(***************************************************************************)
(* C9: a call whose executable is block-listed, or whose leading tokens    *)
(* match a configured blocked pattern, is denied in strict mode; in        *)
(* permissive mode it is denied if and only if it has a high-confidence    *)
(* destructive form (rm -rf /, rm --no-preserve-root, any mkfs*, dd with   *)
(* if=/dev/zero..., or one of these after sudo), and is allowed otherwise. *)
(***************************************************************************)
\* the claim as stated
C9_BlockedDenied ==
    (Checked /\ Parsed) =>
        /\ (/\ guard.cfg.Mode = "strict"
            /\ \E t \in CallTokens : BlockListed(t) \/ MatchesPattern(t)) => Denied
        /\ guard.cfg.Mode = "permissive" =>
              (Denied <=> \E t \in CallTokens :
                              (BlockListed(t) \/ MatchesPattern(t)) /\ ListedForm(t))

\* C9 as amended: a call whose executable, the first word as the guard
\* extracts it, is not allow-listed, and which is block-listed or has leading
\* tokens that match a configured blocked pattern, is denied in strict mode;
\* in permissive mode the script is denied if and only if such a call, its executable name free of substitutions, has a
\* high-confidence form: rm with -rf, -fr or --no-preserve-root and the
\* argument "/", any mkfs*, dd with an argument that starts with
\* if=/dev/zero, or one of these after sudo.
C9_BlockedDeniedUnlessAllowed ==
    (Checked /\ Parsed) =>
        /\ (/\ guard.cfg.Mode = "strict"
            /\ \E t \in CallTokens :
                  ~AllowListed(t) /\ (BlockListed(t) \/ MatchesPattern(t))) => Denied
        /\ guard.cfg.Mode = "permissive" =>
              (Denied <=> \E t \in CallTokens :
                              /\ StaticName(t) /\ ~AllowListed(t)
                              /\ BlockListed(t) \/ MatchesPattern(t)
                              /\ DestructiveForm(t))

\* permissive mode denied a script for sudo rm -rf /, which matches a pattern
C9_Witness ==
    /\ Checked /\ Parsed /\ Denied
    /\ guard.cfg.Mode = "permissive"
    /\ \E t \in CallTokens :
          /\ t[1] = <<"s", "u", "d", "o">> /\ AfterSudo(t)[1] = <<"r", "m">>
          /\ MatchesPattern(t) /\ DestructiveForm(t)

(***************************************************************************)
(* C10: a script that fails to parse, or that contains a call whose        *)
(* executable name is dynamic, is denied in strict mode and not denied for *)
(* that reason in permissive mode; substitutions only in argument          *)
(* positions never cause a denial by themselves.                           *)
(***************************************************************************)
C10_ParseFailureAndDynamicName ==
    (Checked /\ check.input # <<>>) =>
        /\ (guard.cfg.Mode = "strict" /\ (~Parsed \/ DynamicNameCalls # {})) => Denied
        /\ guard.cfg.Mode = "permissive" =>
              check.err \notin {"parse failed", "dynamic command name"}
        /\ ~Parsed => check.err \in {"", "parse failed"}
        /\ (Parsed /\ DynamicNameCalls = {}) =>
              check.err \notin {"parse failed", "dynamic command name"}

\* strict mode let a call with a substitution among its arguments pass and
\* denied the script for the dynamic name of the call after it
C10_Witness ==
    /\ Checked /\ Parsed
    /\ guard.cfg.Mode = "strict"
    /\ Len(Parse(check.input).calls) = 2
    /\ Len(Parse(check.input).calls[1]) = 2
    /\ "$" \notin Range(Parse(check.input).calls[1][1])
    /\ "$" \in Range(Parse(check.input).calls[1][2])
    /\ "$" \in Range(Parse(check.input).calls[2][1])
    /\ check.err = "dynamic command name"

(***************************************************************************)
(* C11: for any two Publish calls, concurrent or one after the other,      *)
(* there is one total order of the messages such that History lists them   *)
(* in that order and every handler that receives both receives them in     *)
(* that order.                                                             *)
(***************************************************************************)
\* the subscriptions a running Publish has delivered its message to so far
DeliveredBy(p) == {call[p].ids[i] : i \in 1..(call[p].next - 1)}

\* the history lists the messages in the order of their serial payloads, and
\* no handler is handed the earlier of two kept messages after the later one
C11_OneTotalOrder ==
    /\ [](\A i, j \in 1..Len(history) :
              i < j => history[i].Payload < history[j].Payload)
    /\ [][\A p, q \in Procs :
            (/\ pc[p] = "handlers" /\ pc[q] = "handlers"
             /\ call[p].msg.Payload < call[q].msg.Payload
             /\ {call[p].msg, call[q].msg} \subseteq Range(history)
             /\ call'[p].next = call[p].next + 1)
            => call[p].ids[call[p].next] \notin DeliveredBy(q)]_vars

(***************************************************************************)
(* C12: within one Publish the handlers subscribed to the type of the      *)
(* message are all invoked before any wildcard handler, and in each of the *)
(* two classes the handlers are invoked in the order in which they were    *)
(* subscribed, also after Unsubscribe calls on other subscriptions.        *)
(***************************************************************************)
\* the key a subscription was made for
KeyOf(id) == (CHOOSE s \in subs : s.id = id).msgType

\* the invocations go through the copied handlers from the first on; the
\* first Len(specific) of them are subscriptions to the type of the message
\* and the rest wildcard subscriptions; each class is in subscription order
C12_SpecificFirstInOrder ==
    \A p \in Procs :
        pc[p] = "handlers" =>
            LET ids == call[p].ids
                ns == Len(call[p].specific)
            IN /\ Len(ids) = ns + Len(call[p].wildcard)
               /\ Len(call[p].invoked) = call[p].next - 1
               /\ \A i \in 1..Len(ids) :
                     /\ KeyOf(ids[i]) = (IF i <= ns THEN call[p].msg.Type ELSE Wildcard)
                     /\ i < call[p].next =>
                           call[p].invoked[i] =
                               (call[p].specific \o call[p].wildcard)[i]
               /\ \A i, j \in 1..Len(ids) :
                     (i < j /\ (j <= ns \/ i > ns)) => ids[i] < ids[j]

\* a Publish has invoked two handlers of the type in subscription order and
\* goes on to a wildcard handler, after an earlier subscription to the type
\* was unsubscribed... the first two of the three subscriptions remain
C12_Witness ==
    \E p \in Procs :
        /\ pc[p] = "handlers"
        /\ Len(call[p].specific) = 2
        /\ call[p].next = 3
        /\ \E s \in subs :
              /\ s.unsubscribed
              /\ s.msgType = call[p].msg.Type
              /\ s.id < call[p].ids[1]

(***************************************************************************)
(* C13: after any sequence of Publish calls on a bus with history cap C    *)
(* the history never holds more than C messages and holds exactly the most *)
(* recent min(n, C) of the n published messages, in publish order;         *)
(* History(k) returns the last min(k, size) of them, oldest first.         *)
(***************************************************************************)
Min(a, b) == IF a < b THEN a ELSE b

\* the kept messages are the last min(n, C) of the serial payloads 1..n
KeptMostRecent ==
    /\ Len(history) <= maxHist
    /\ Len(history) = Min(pubCount, maxHist)
    /\ \A i \in 1..Len(history) :
          history[i].Payload = pubCount - Len(history) + i

\* the last min(k, size) messages of h, oldest first; none for k <= 0
LastMin(h, k) ==
    IF k <= 0 THEN <<>>
    ELSE SubSeq(h, Len(h) - Min(k, Len(h)) + 1, Len(h))

\* process p returns from a History call in this step
HistoryReturns(p) == call'[p].op = "History" /\ call'[p] # call[p]

\* as stated: every History(k) returns the last min(k, size) messages
C13_HistoryLastMin ==
    /\ []KeptMostRecent
    /\ [][\A p \in Procs :
            HistoryReturns(p) =>
                call'[p].result = LastMin(history, call'[p].n)]_vars

\* amended: History(k) returns the last min(k, size) messages for k > 0 and
\* all the kept messages for k <= 0
C13_HistoryLastMinOrAll ==
    /\ []KeptMostRecent
    /\ [][\A p \in Procs :
            HistoryReturns(p) =>
                call'[p].result =
                    (IF call'[p].n > 0 THEN LastMin(history, call'[p].n)
                                       ELSE history)]_vars

\* more messages were published than the cap keeps, and a History call with
\* a non-positive argument has returned all the kept messages
C13_Witness ==
    /\ pubCount > maxHist
    /\ history # <<>>
    /\ \E p \in Procs :
          /\ call[p].op = "History"
          /\ call[p].n <= 0
          /\ call[p].result = history

(***************************************************************************)
(* C14: under any interleaving of concurrent Publish, Subscribe and        *)
(* Unsubscribe calls, each Publish(msg) invokes every handler whose        *)
(* subscription, to msg.Type or to the wildcard, was completed before the  *)
(* Publish began and not removed, exactly once: no delivery is lost and    *)
(* none is duplicated.                                                     *)
(***************************************************************************)
\* the subscriptions in force that a message of this type is due to
Due(type) ==
    {s.id : s \in {r \in subs : ~r.unsubscribed /\ r.msgType \in {type, Wildcard}}}

IdsUnder(h, key) == IdsOf(Entries(h, key))

\* the handles whose first Unsubscribe is this step
FirstUnsubscribed == {s \in subs : ~s.unsubscribed /\ s \notin subs'}

\* the handler slices change only when a subscription is appended or a
\* handle is used for the first time, so a repeated Unsubscribe leaves them
\* as they are; the first one takes out that id alone and keeps the order;
\* a Publish that begins copies no handler of a used handle
C15_UnsubscribeIdempotent ==
    /\ [][subs' = subs => handlers' = handlers]_vars
    /\ [][\A s \in FirstUnsubscribed :
            /\ IdsUnder(handlers', s.msgType) =
                   SelectSeq(IdsUnder(handlers, s.msgType), LAMBDA id : id # s.id)
            /\ \A key \in DOMAIN handlers \ {s.msgType} :
                   handlers'[key] = handlers[key]]_vars
    /\ [][\A p \in Procs :
            (pc[p] = "idle" /\ pc'[p] = "handlers") =>
                \A s \in subs :
                    s.unsubscribed => s.id \notin Range(call'[p].ids)]_vars

\* a Publish that began after a handle was used goes through the handlers
\* subscribed before and after that one, which is not among its copies
C15_Witness ==
    \E p \in Procs :
        /\ pc[p] = "handlers"
        /\ \E s \in subs :
              /\ s.unsubscribed
              /\ s.id \notin Range(call[p].ids)
              /\ \E i, j \in 1..Len(call[p].ids) :
                    /\ i < j
                    /\ call[p].ids[i] < s.id /\ s.id < call[p].ids[j]
                    /\ KeyOf(call[p].ids[i]) = s.msgType
                    /\ KeyOf(call[p].ids[j]) = s.msgType

(***************************************************************************)
(* internal/task/task.go : a goroutine inside UpdateStatus and an observer *)
(* that reads a task through the pointer Get, All, Ready or Failed handed  *)
(* out.  The TaskGraph has its RWMutex; the Task struct has no lock and no *)
(* accessor methods, so the observer reads the fields directly.            *)
(***************************************************************************)
\* pc: where the goroutine stands in UpdateStatus; held: the *Task pointers
\* the observer has; seen: what its last read of a task's fields gave, and
\* whether UpdateStatus was between Lock and Unlock on that task at the time
NoAccess ==
    [pc |-> "idle", id |-> "", status |-> "", held |-> {},
     seen |-> [id |-> "", Status |-> "", StartedAt |-> NoTime,
               CompletedAt |-> NoTime, writing |-> FALSE]]

\* UpdateStatus(id, status), statement by statement
UpdateStatusStep ==
    /\ \/ \* g.mu.Lock(); t, ok := g.tasks[id]; an absent id returns the error
          /\ access.pc = "idle"
          /\ \E id \in {"a", AbsentId} : \E status \in Statuses :
                access' = IF id \in DOMAIN tasks
                          THEN [access EXCEPT !.pc = "locked", !.id = id,
                                              !.status = status]
                          ELSE access
          /\ UNCHANGED tasks
       \/ \* t.Status = status
          /\ access.pc = "locked"
          /\ tasks' = [tasks EXCEPT ![access.id].Status = access.status]
          /\ access' = [access EXCEPT !.pc = "status"]
       \/ \* now := time.Now() and the switch that stamps the task
          /\ access.pc = "status"
          /\ tasks' = [tasks EXCEPT ![access.id] = Stamp(@, access.status, now)]
          /\ access' = [access EXCEPT !.pc = "stamp"]
       \/ \* return nil and the deferred g.mu.Unlock() (no bus is attached)
          /\ access.pc = "stamp"
          /\ access' = [access EXCEPT !.pc = "idle", !.id = "", !.status = ""]
          /\ UNCHANGED tasks
    /\ UNCHANGED <<now, last, retryAfter, busVars, guardVars, sw, route, agent>>

\* Get(id) under g.mu.RLock(): the observer is handed the *Task itself
ObserverGet ==
    /\ access.pc = "idle"
    /\ \E id \in DOMAIN tasks : access' = [access EXCEPT !.held = @ \cup {id}]
    /\ UNCHANGED <<tasks, now, last, retryAfter, busVars, guardVars, sw, route, agent>>

\* the observer reads t.Status, t.StartedAt and t.CompletedAt through the
\* pointer; no lock is taken, so this step runs whatever UpdateStatus does
ObserverRead ==
    /\ \E id \in access.held :
          access' = [access EXCEPT !.seen =
                        [id |-> id, Status |-> tasks[id].Status,
                         StartedAt |-> tasks[id].StartedAt,
                         CompletedAt |-> tasks[id].CompletedAt,
                         writing |-> access.pc # "idle" /\ access.id = id]]
    /\ UNCHANGED <<tasks, now, last, retryAfter, busVars, guardVars, sw, route, agent>>

InitAccess ==
    /\ tasks = Put(NewTaskGraph, "a", Task(StatusPending, <<>>))
    /\ now \in 0..MaxTime
    /\ last = NoCall
    /\ retryAfter = <<>>
    /\ access = NoAccess
    /\ BusUnused /\ GuardUnused /\ WriterUnused /\ RouterUnused /\ AgentUnused

NextAccess == UpdateStatusStep \/ ObserverGet \/ ObserverRead

SpecAccess == InitAccess /\ [][NextAccess]_vars

(***************************************************************************)
(* C16: every read and every write of a task's fields is serialised by a   *)
(* per-task lock: a reader holding a task obtained from Get, All, Ready or *)
(* Failed never reads the task's status or timestamps while an             *)
(* UpdateStatus write to that task is in progress.                         *)
(***************************************************************************)
\* no read of a task's fields happened while UpdateStatus was writing it,
\* and no read shows a running task without its start stamp
C16_NoReadDuringWrite ==
    /\ ~access.seen.writing
    /\ access.seen.Status = StatusRunning => access.seen.StartedAt # NoTime

(***************************************************************************)
(* internal/adapter : streamWriter, the writer that collects a worker's    *)
(* stdout and stderr.  newStreamWriter takes the mutex and the builder;    *)
(* the struct has no limit and no truncated field.                         *)
(***************************************************************************)
MaxLimit == 2       \* largest byte cap a caller asks for
MaxWriteLen == 2    \* longest p of one Write call
MaxTotal == 3       \* Write calls stop once this many bytes were passed in

Bytes == {"a", "b"}

\* newStreamWriter(mu, buf): an empty builder
newStreamWriter == <<>>

\* Write(p) under the mutex: sw.buf.Write(p), which appends all of p and
\* returns (len(p), nil)
Write(buf, p) == [buf |-> buf \o p, n |-> Len(p), err |-> FALSE]

\* limit: the cap the caller wants enforced; passed: all the bytes handed to
\* Write so far; p, n, err: the last Write's argument and what it returned
CallWrite ==
    /\ Len(sw.passed) < MaxTotal
    /\ \E p \in SeqsUpTo(Bytes, MaxWriteLen) :
          LET r == Write(sw.buf, p)
          IN sw' = [sw EXCEPT !.buf = r.buf, !.passed = @ \o p, !.called = TRUE,
                              !.n = r.n, !.err = r.err, !.p = p]
    /\ UNCHANGED <<graphVars, busVars, guardVars, access, route, agent>>

InitWriter ==
    /\ \E limit \in 0..MaxLimit :
          sw = [limit |-> limit, buf |-> newStreamWriter, passed |-> <<>>,
                called |-> FALSE, n |-> 0, err |-> FALSE, p |-> <<>>]
    /\ GraphUnused /\ BusUnused /\ GuardUnused
    /\ AccessUnused /\ RouterUnused /\ AgentUnused

SpecWriter == InitWriter /\ [][CallWrite]_vars

(***************************************************************************)
(* C17: for a stream writer with byte cap N > 0 and any sequence of Write  *)
(* calls totalling T bytes, the buffer holds exactly the first min(T, N)   *)
(* bytes written, followed by the truncation marker exactly once if and    *)
(* only if T > N; the buffer never grows beyond N + len(marker); every     *)
(* Write(p) returns (len(p), nil); with N = 0 nothing is ever dropped.     *)
(***************************************************************************)
\* the marker the tests look for, as one token
truncationMarker == <<"[truncated]">>

\* what the buffer is to hold after these bytes were passed in under cap N
Capped(passed, N) ==
    IF N = 0 \/ Len(passed) <= N THEN passed
    ELSE SubSeq(passed, 1, N) \o truncationMarker

C17_CappedWithMarker ==
    /\ sw.buf = Capped(sw.passed, sw.limit)
    /\ sw.limit > 0 => Len(sw.buf) <= sw.limit + Len(truncationMarker)
    /\ sw.called => sw.n = Len(sw.p) /\ ~sw.err

(***************************************************************************)
(* internal/adapter : Registry and TaskRouter                              *)
(***************************************************************************)
TaskTypes == {"code", "research", "test", "review", "generic"}

\* the adapters that get registered; "gone" is a name that never is
AdapterNames == {"claude-code", "exec"}

\* NewTaskRouter(reg, defaultAdapter): every task type goes to the default,
\* which is claude-code when none is given
NewTaskRouter(defaultAdapter) ==
    [t \in TaskTypes |-> IF defaultAdapter = "" THEN "claude-code" ELSE defaultAdapter]

\* Registry.Available(): the names of the adapters whose Available() is
\* true, in the order in which the range over the map came upon them
Available(adapters, order) == SelectSeq(order, LAMBDA name : adapters[name])

\* Route as it was before the Available() test was added: the configured
\* name whatever the registry says
RouteConfigured(adapters, routes, type, order) ==
    IF type \in DOMAIN routes THEN routes[type]
    ELSE LET avail == Available(adapters, order)
         IN IF Len(avail) > 0 THEN avail[1] ELSE ""

\* TaskRouter.Route(t): the configured adapter when it is registered and
\* available, else the first of Registry.Available(), else ""
Route(adapters, routes, type, order) ==
    IF /\ type \in DOMAIN routes
       /\ routes[type] \in DOMAIN adapters
       /\ adapters[routes[type]]
    THEN routes[type]
    ELSE LET avail == Available(adapters, order)
         IN IF Len(avail) > 0 THEN avail[1] ELSE ""

\* Registry.Register(a): r.adapters[a.Name()] = a; the adapter answers
\* Available() with the given value
Register ==
    /\ \E name \in AdapterNames : \E available \in BOOLEAN :
          route' = [route EXCEPT !.adapters = (name :> available) @@ @]
    /\ UNCHANGED <<graphVars, busVars, guardVars, access, sw, agent>>

\* TaskRouter.SetRoute(taskType, adapterName)
SetRoute ==
    /\ \E type \in TaskTypes : \E name \in AdapterNames \cup {"gone"} :
          route' = [route EXCEPT !.routes = (type :> name) @@ @]
    /\ UNCHANGED <<graphVars, busVars, guardVars, access, sw, agent>>

\* Route(t) for a task of a routed type or of a type without a route
CallRoute ==
    /\ \E type \in TaskTypes \cup {"other"} :
       \E order \in MapOrders(route.adapters) :
          route' = [route EXCEPT
                       !.last = [called |-> TRUE, type |-> type,
                                 avail |-> Available(route.adapters, order),
                                 result |-> Route(route.adapters, route.routes,
                                                  type, order)]]
    /\ UNCHANGED <<graphVars, busVars, guardVars, access, sw, agent>>

InitRouter ==
    /\ \E defaultAdapter \in {"", "exec"} :
          route = [adapters |-> <<>>, routes |-> NewTaskRouter(defaultAdapter),
                   last |-> [called |-> FALSE, type |-> "", avail |-> <<>>,
                             result |-> ""]]
    /\ GraphUnused /\ BusUnused /\ GuardUnused
    /\ AccessUnused /\ WriterUnused /\ AgentUnused

NextRouter == Register \/ SetRoute \/ CallRoute

SpecRouter == InitRouter /\ [][NextRouter]_vars

(***************************************************************************)
(* C18: Route(task) returns the adapter configured for the task's type     *)
(* when that adapter is registered and available; otherwise it returns the *)
(* first available registered adapter; it returns the empty string if and  *)
(* only if no registered adapter is available; it never returns the name   *)
(* of an unregistered or unavailable adapter.                              *)
(***************************************************************************)
\* the registered adapters that are available
AvailableSet == {name \in DOMAIN route.adapters : route.adapters[name]}

\* the task type of the call has a route to a registered, available adapter
PreferredUsable(type) ==
    type \in DOMAIN route.routes /\ route.routes[type] \in AvailableSet

\* every Route call returns as the claim says; avail is what
\* Registry.Available() gave in that call
C18_RouteToAvailable ==
    [][route'.last # route.last =>
          LET type == route'.last.type
              result == route'.last.result
              avail == route'.last.avail
          IN /\ Range(avail) = AvailableSet
             /\ PreferredUsable(type) => result = route.routes[type]
             /\ (~PreferredUsable(type) /\ AvailableSet # {}) => result = avail[1]
             /\ result = "" <=> AvailableSet = {}
             /\ result # "" => result \in AvailableSet]_vars

\* a Route call for a type whose configured adapter is registered but not
\* available has fallen back to another adapter, which is available
C18_Witness ==
    /\ route.last.called
    /\ route.last.type \in DOMAIN route.routes
    /\ route.routes[route.last.type] \in DOMAIN route.adapters \ AvailableSet
    /\ route.last.result \in AvailableSet

(***************************************************************************)
(* The agent loop (RunAgent).  One step of the model is one turn: the LLM  *)
(* call, the truncation handling, the tool dispatch, the terminate test    *)
(* and the budget test.  The conversation itself is left out here.         *)
(***************************************************************************)
MaxTurns == 3       \* largest configured max_turns
MaxTools == 2       \* most tool_use blocks in one response

\* what the LLM may answer: the names of the tools it calls, in order, and
\* the stop reason
Responses ==
    [tools : SeqsUpTo({"complete", "fail", "get_status"}, MaxTools),
     stop : {"tool_use", "end_turn", "max_tokens"}]

\* a terminate test that looks for fail and complete anywhere in the turn
TurnOutcomeAnyTool(r) ==
    IF r.stop = "max_tokens" THEN ""
    ELSE IF r.tools = <<>> THEN (IF r.stop = "end_turn" THEN "success" ELSE "")
    ELSE IF "complete" \in Range(r.tools) THEN "success"
    ELSE IF "fail" \in Range(r.tools) THEN "failed"
    ELSE ""

\* how a turn with this response ends the loop, "" when it does not: a
\* truncated response is discarded with its tool calls; a response that
\* ends the turn without a tool call ends the loop with success; otherwise
\* every tool is dispatched and the last one decides
TurnOutcome(r) ==
    IF r.stop = "max_tokens" THEN ""
    ELSE IF r.tools = <<>> THEN (IF r.stop = "end_turn" THEN "success" ELSE "")
    ELSE IF r.tools[Len(r.tools)] = "complete" THEN "success"
    ELSE IF r.tools[Len(r.tools)] = "fail" THEN "failed"
    ELSE ""

\* a budget test that lets one turn too many through
BudgetAfter(turn, maxTurns) == IF turn > maxTurns THEN "max turns exceeded" ELSE ""

\* the budget test made once turn += 1 is done
Budget(turn, maxTurns) == IF turn >= maxTurns THEN "max turns exceeded" ELSE ""

\* one turn.  A cancelled context makes the LLM call return at once and the
\* loop ends; otherwise the call is answered, the turn is carried out, and
\* turn += 1 with the budget test follows when the loop goes on.  called
\* collects the tools the LLM has asked for so far.
AgentTurn ==
    /\ agent.outcome = ""
    /\ IF agent.cancelled
       THEN agent' = [agent EXCEPT !.outcome = "cancelled"]
       ELSE \E r \in Responses :
               LET end == TurnOutcome(r)
               IN agent' = [agent EXCEPT
                      !.calls = @ + 1,
                      !.resp = r,
                      !.called = @ \cup Range(r.tools),
                      !.dispatched = IF r.stop = "max_tokens" THEN <<>> ELSE r.tools,
                      !.turn = IF end = "" THEN @ + 1 ELSE @,
                      !.outcome = IF end # "" THEN end
                                  ELSE Budget(agent.turn + 1, agent.maxTurns)]
    /\ UNCHANGED <<graphVars, busVars, guardVars, access, sw, route>>

\* the parent context is cancelled
AgentCancel ==
    /\ agent.outcome = ""
    /\ ~agent.cancelled
    /\ agent' = [agent EXCEPT !.cancelled = TRUE]
    /\ UNCHANGED <<graphVars, busVars, guardVars, access, sw, route>>

InitAgent ==
    /\ \E maxTurns \in 1..MaxTurns :
          agent = [maxTurns |-> maxTurns, turn |-> 0, calls |-> 0,
                   resp |-> [tools |-> <<>>, stop |-> ""], called |-> {},
                   dispatched |-> <<>>, outcome |-> "", cancelled |-> FALSE]
    /\ GraphUnused /\ BusUnused /\ GuardUnused
    /\ AccessUnused /\ WriterUnused /\ RouterUnused

\* the loop is the foreground driver: it keeps taking turns until it ends
SpecAgent == InitAgent /\ [][AgentTurn \/ AgentCancel]_vars /\ WF_vars(AgentTurn)

(***************************************************************************)
(* C19: with turn budget max_turns = N and an LLM that never calls         *)
(* complete or fail, the agent loop performs at most N LLM calls and then  *)
(* terminates with a "max turns exceeded" failure; it never runs           *)
(* unboundedly.                                                            *)
(***************************************************************************)
\* the LLM has called neither complete nor fail, and nobody cancelled
NeverCompleteOrFail ==
    agent.called \cap {"complete", "fail"} = {} /\ ~agent.cancelled

\* the last response ended the turn without a tool call
EndedTurnWithoutTool ==
    agent.calls > 0 /\ agent.resp.tools = <<>> /\ agent.resp.stop = "end_turn"

LastTool ==
    IF agent.dispatched = <<>> THEN ""
    ELSE agent.dispatched[Len(agent.dispatched)]

\* once the loop has ended no LLM call is made
NoCallAfterExit == [][agent.outcome # "" => agent'.calls = agent.calls]_vars

C27_SameCycleAnyOrder ==
    last.op = "DetectCycles" =>
        \A order \in MapOrders(tasks) :
            DetectCycles(tasks, order) = [err |-> last.err, text |-> last.text]

(***************************************************************************)
(* C29: cancelling or failing a task never propagates: UpdateStatus on one *)
(* task changes the status of no other task, so tasks that depend on a     *)
(* cancelled or failed task stay pending, are never implicitly cancelled,  *)
(* and are never returned by Ready() while that dependency is not          *)
(* complete.                                                               *)
(***************************************************************************)
\* an UpdateStatus call leaves every task but its own as it was, and Ready
\* returns no task with a dependency that is not complete
C29_NoPropagation ==
    /\ [][last'.op = "UpdateStatus" =>
            \A x \in DOMAIN tasks \ {last'.id} :
                x \in DOMAIN tasks' /\ tasks'[x] = tasks[x]]_vars
    /\ [](last.op = "Ready" =>
            \A x \in last.ready : \A d \in Range(tasks[x].DependsOn) :
                d \in DOMAIN tasks /\ tasks[d].Status = StatusComplete)

\* b was just cancelled or failed, and a, which depends on b, is pending
C29_Witness ==
    /\ last.op = "UpdateStatus" /\ last.id = "b" /\ ~last.err
    /\ tasks["b"].Status \in {StatusCancelled, StatusFailed}
    /\ "a" \in DOMAIN tasks
    /\ "b" \in Range(tasks["a"].DependsOn)
    /\ tasks["a"].Status = StatusPending

(***************************************************************************)
(* internal/task/task.go : UpdateStatus on a graph with a bus, called by   *)
(* several goroutines.  The call holds g.mu from its first statement to    *)
(* its return, the Publish included.                                       *)
(***************************************************************************)
\* a lock that shuts nobody out
GraphLockOpen == TRUE

\* g.mu is free: no goroutine is inside UpdateStatus
GraphLockFree == \A q \in Procs : pc[q] = "idle"

\* the message UpdateStatus publishes
StatusChanged(id, old, new, at) ==
    [Type |-> "task.status_changed", TaskID |-> id,
     Payload |-> [old |-> old, new |-> new], Time |-> at]

\* g.mu.Lock(), the lookup, and the writes to the task; an absent id returns
\* the error.  pubCount counts the calls that got this far.
StatusWrite(p) ==
    /\ GraphLockFree
    /\ pc[p] = "idle"
    /\ pubCount < MaxPublishes
    /\ \E id \in TaskIds \cup {AbsentId} : \E status \in Statuses :
          IF id \notin DOMAIN tasks
          THEN UNCHANGED <<tasks, pc, call, pubCount>>
          ELSE /\ tasks' = [tasks EXCEPT ![id] = Written(@, status, now)]
               /\ pc' = [pc EXCEPT ![p] = "written"]
               /\ call' = [call EXCEPT ![p] =
                              [id |-> id, old |-> tasks[id].Status, new |-> status]]
               /\ pubCount' = pubCount + 1
    /\ UNCHANGED <<now, last, retryAfter, handlers, history, maxHist, nextID, subs,
                   guardVars, workVars>>

\* g.bus.Publish(...) with no handler subscribed, return nil, g.mu.Unlock()
StatusPublish(p) ==
    /\ pc[p] = "written"
    /\ history' = Trimmed(Append(history, StatusChanged(call[p].id, call[p].old,
                                                         call[p].new, now)),
                          maxHist)
    /\ pc' = [pc EXCEPT ![p] = "idle"]
    /\ call' = [call EXCEPT ![p] = <<>>]
    /\ UNCHANGED <<tasks, now, last, retryAfter, handlers, maxHist, nextID, subs,
                   pubCount, guardVars, workVars>>

InitEvents ==
    /\ tasks = Put(Put(NewTaskGraph, "b", Task(StatusPending, <<>>)),
                   "a", Task(StatusPending, <<"b">>))
    /\ now = 0 /\ last = NoCall /\ retryAfter = <<>>
    /\ handlers = <<>> /\ history = <<>> /\ nextID = 0 /\ subs = {}
    /\ \E maxHistory \in 0..MaxCap : maxHist = New(maxHistory)
    /\ pubCount = 0
    /\ pc = [p \in Procs |-> "idle"]
    /\ call = [p \in Procs |-> <<>>]
    /\ GuardUnused /\ WorkUnused

SpecEvents ==
    InitEvents /\ [][\E p \in Procs : StatusWrite(p) \/ StatusPublish(p)]_vars

(***************************************************************************)
(* C28: every successful UpdateStatus(id, s) publishes exactly one         *)
(* task.status_changed event for id whose old value is the task's status   *)
(* immediately before the call and whose new value is s; hence, per task,  *)
(* the history of these events forms a chain in which each event's old     *)
(* equals the previous event's new, also when UpdateStatus is called       *)
(* concurrently.                                                           *)
(***************************************************************************)
\* the positions of the kept events of a task, and the one before position i
EventsOf(id) == {i \in 1..Len(history) : history[i].TaskID = id}

PreviousOf(id, i) ==
    LET before == {j \in EventsOf(id) : j < i}
    IN CHOOSE j \in before : \A k \in before : k <= j

\* the goroutines that have written a task and not yet published
Unpublished(id) == {p \in Procs : pc[p] = "written" /\ call[p].id = id}

\* one event per call: the events kept are as many as the calls that have
\* returned, up to the cap; the events of a task form a chain that ends
\* in the status the task has, or in the old status of the call that is
\* about to publish
C28_StatusEventsChain ==
    /\ Cardinality({p \in Procs : pc[p] = "written"}) <= 1
    /\ Len(history) =
           Min(pubCount - Cardinality({p \in Procs : pc[p] = "written"}), maxHist)
    /\ \A id \in DOMAIN tasks :
          /\ \A i \in EventsOf(id) :
                {j \in EventsOf(id) : j < i} # {} =>
                    history[i].Payload.old = history[PreviousOf(id, i)].Payload.new
          /\ EventsOf(id) # {} =>
                LET e == history[PreviousOf(id, Len(history) + 1)]
                IN IF Unpublished(id) = {}
                   THEN e.Payload.new = tasks[id].Status
                   ELSE \A p \in Unpublished(id) :
                           call[p].old = e.Payload.new /\ call[p].new = tasks[id].Status

\* two events of one task are kept, the later taking up where the earlier
\* left off, with a status other than the initial one in between
C28_Witness ==
    \E id \in DOMAIN tasks :
        /\ Cardinality(EventsOf(id)) >= 2
        /\ \E i \in EventsOf(id) :
              /\ history[i].Payload.old # StatusPending
              /\ history[i].Payload.new # history[i].Payload.old

(***************************************************************************)
(* What the orchestrator does with a failed worker.  The legacy loop goes  *)
(* through handleTaskFailure; the agent loop's processWorkerResults has    *)
(* its own branch for a result that is not a success.                      *)
(***************************************************************************)
MaxRetryLimit == 2  \* largest max_retries of a task

\* a task with its retry fields, handed to a worker
AssignedTask(maxRetries) ==
    Task(StatusAssigned, <<>>) @@ [MaxRetries |-> maxRetries, RetryCount |-> 0]

\* the record of the last failure handled
Failure(mode, id, retryable) ==
    [op |-> "failure", mode |-> mode, id |-> id, retryable |-> retryable,
     before |-> tasks[id], at |-> now]

\* agent mode, the branch of processWorkerResults for a failed result:
\* q.tasks.UpdateStatus(taskID, task.StatusFailed), whatever the error is
FailAgentMode ==
    /\ \E id \in DOMAIN tasks : \E retryable \in BOOLEAN :
          /\ tasks[id].Status = StatusAssigned
          /\ tasks' = [tasks EXCEPT ![id] = Written(@, StatusFailed, now)]
          /\ last' = Failure("agent", id, retryable)
    /\ UNCHANGED <<now, retryAfter, busVars, guardVars, workVars>>

\* the legacy loop, handleTaskFailure: a retryable error with retries left
\* puts the task back to pending, counts the retry and starts the backoff;
\* anything else marks the task failed
FailLegacy ==
    /\ \E id \in DOMAIN tasks : \E retryable \in BOOLEAN : \E backoff \in 1..MaxBackoff :
          /\ tasks[id].Status = StatusAssigned
          /\ IF retryable /\ tasks[id].RetryCount < tasks[id].MaxRetries
             THEN /\ tasks' = [tasks EXCEPT
                                  ![id] = [Written(@, StatusPending, now)
                                              EXCEPT !.RetryCount = @ + 1]]
                  /\ retryAfter' = (id :> (now + backoff)) @@ retryAfter
             ELSE /\ tasks' = [tasks EXCEPT ![id] = Written(@, StatusFailed, now)]
                  /\ UNCHANGED retryAfter
          /\ last' = Failure("legacy", id, retryable)
    /\ UNCHANGED <<now, busVars, guardVars, workVars>>

\* a pending task is handed to a worker again
Reassign ==
    /\ \E id \in DOMAIN tasks :
          /\ tasks[id].Status = StatusPending
          /\ tasks' = [tasks EXCEPT ![id] = Written(@, StatusAssigned, now)]
    /\ last' = NoCall
    /\ UNCHANGED <<now, retryAfter, busVars, guardVars, workVars>>

InitFailure ==
    /\ \E maxA, maxB \in 0..MaxRetryLimit :
          tasks = ("a" :> AssignedTask(maxA)) @@ ("b" :> AssignedTask(maxB))
    /\ now = 0
    /\ last = NoCall
    /\ retryAfter = <<>>
    /\ BusUnused /\ GuardUnused /\ WorkUnused

SpecFailure == InitFailure /\ [][FailAgentMode \/ FailLegacy \/ Reassign]_vars

(***************************************************************************)
(* C26: on every worker failure, in agent mode as well as in the legacy    *)
(* loop, the task is re-queued (status back to pending, retry_count        *)
(* incremented by one, retry_after set strictly in the future) if and only *)
(* if the error is classified retryable and retry_count < max_retries;     *)
(* otherwise it is marked failed; consequently retry_count never exceeds   *)
(* max_retries.                                                            *)
(***************************************************************************)
\* the failure just handled has put its task back in the queue
Requeued ==
    /\ tasks[last.id].Status = StatusPending
    /\ tasks[last.id].RetryCount = last.before.RetryCount + 1
    /\ last.id \in DOMAIN retryAfter
    /\ retryAfter[last.id] > last.at

C26_RequeueIffRetryable ==
    /\ \A id \in DOMAIN tasks : tasks[id].RetryCount <= tasks[id].MaxRetries
    /\ last.op = "failure" =>
          IF last.retryable /\ last.before.RetryCount < last.before.MaxRetries
          THEN Requeued
          ELSE /\ tasks[last.id].Status = StatusFailed
               /\ tasks[last.id].RetryCount = last.before.RetryCount

(***************************************************************************)
(* The agent loop's conversation and its history repair.  A message is a   *)
(* user text, an assistant message with its tool_use ids (and a text block *)
(* or none), or a tool_result message with the ids it answers.             *)
(***************************************************************************)
MaxConv == 3        \* messages after the objective in a loaded conversation
MaxIds == 2         \* tool_use ids of one assistant message

\* the sequences without repetition over the tool_use ids
IdSeqs == {q \in SeqsUpTo(1..MaxIds, MaxIds) : Cardinality(Range(q)) = Len(q)}

UserMsg == [role |-> "user", text |-> TRUE, ids |-> <<>>, synthetic |-> {}]

\* the tool_use ids of an assistant message with n tool_use blocks: the
\* ids of one message differ, and they are named in the order of the blocks
UseIds(n) == [k \in 1..n |-> k]

\* the messages a stored conversation may hold
Messages ==
    {UserMsg}
    \cup {[role |-> "assistant", text |-> text, ids |-> UseIds(n), synthetic |-> {}] :
              text \in BOOLEAN, n \in 0..MaxIds}
    \cup [role : {"tool_result"}, text : {FALSE}, ids : IdSeqs, synthetic : {{}}]

\* a repair that drops what it cannot match and makes nothing up
ResultsKept(uses, given) ==
    [role |-> "tool_result", text |-> FALSE,
     ids |-> SelectSeq(uses, LAMBDA id : id \in Range(given.ids)),
     synthetic |-> {}]

\* the tool_result message for an assistant message: one result per
\* tool_use id, in the order of the tool_use blocks; the given result is
\* kept where there is one, and synthesised as an error where it is missing
ResultsFor(uses, given) ==
    [role |-> "tool_result", text |-> FALSE, ids |-> uses,
     synthetic |-> (given.synthetic \cap Range(uses))
                       \cup (Range(uses) \ Range(given.ids))]

\* the walk over the conversation from message i on
RECURSIVE RepairFrom(_, _)
RepairFrom(conv, i) ==
    IF i > Len(conv) THEN <<>>
    ELSE LET msg == conv[i]
             hasNext == i < Len(conv) /\ conv[i + 1].role = "tool_result"
             none == [role |-> "tool_result", text |-> FALSE, ids |-> <<>>,
                      synthetic |-> {}]
         IN IF msg.role = "assistant" /\ msg.ids # <<>>
            THEN <<msg, ResultsFor(msg.ids, IF hasNext THEN conv[i + 1] ELSE none)>>
                     \o RepairFrom(conv, IF hasNext THEN i + 2 ELSE i + 1)
            ELSE IF msg.role = "assistant"
            THEN <<[msg EXCEPT !.text = TRUE]>> \o RepairFrom(conv, i + 1)
            ELSE IF msg.role = "tool_result"
            THEN RepairFrom(conv, i + 1)
            ELSE <<msg>> \o RepairFrom(conv, i + 1)

\* history repair: one walk over the conversation
Repair(conv) == RepairFrom(conv, 1)

\* step 1 of a turn
RepairStep ==
    /\ agent.pc = "repair"
    /\ agent' = [agent EXCEPT !.conv = Repair(@), !.pc = "call"]
    /\ UNCHANGED <<graphVars, busVars, guardVars, access, sw, route>>

\* the LLM call and what follows: the assistant message is appended, then
\* the tool_result message, unless the turn is interrupted before that or
\* the answer has no tool_use block; the next turn starts with the repair
TurnAppend ==
    /\ agent.pc = "call"
    /\ Len(agent.conv) < MaxConv + 1
    /\ \E n \in 0..MaxIds : \E text, interrupted \in BOOLEAN :
          LET ids == UseIds(n)
              answer == [role |-> "assistant", text |-> text, ids |-> ids,
                         synthetic |-> {}]
              results == [role |-> "tool_result", text |-> FALSE, ids |-> ids,
                          synthetic |-> {}]
          IN agent' = [agent EXCEPT
                 !.conv = IF interrupted \/ ids = <<>> THEN Append(@, answer)
                          ELSE @ \o <<answer, results>>,
                 !.pc = "repair"]
    /\ UNCHANGED <<graphVars, busVars, guardVars, access, sw, route>>

\* a run starts with the objective; a resume starts with what was stored
InitRepair ==
    /\ \E rest \in SeqsUpTo(Messages, MaxConv) :
          agent = [conv |-> <<UserMsg>> \o rest, pc |-> "repair"]
    /\ GraphUnused /\ BusUnused /\ GuardUnused
    /\ AccessUnused /\ WriterUnused /\ RouterUnused

SpecRepair == InitRepair /\ [][RepairStep \/ TurnAppend]_vars

(***************************************************************************)
(* C21: immediately before every LLM call, including the first call after  *)
(* a resume from an interrupted turn, the conversation satisfies: every    *)
(* tool_use block of an assistant message has exactly one tool_result with *)
(* the same id in the immediately following message, no tool_result lacks  *)
(* a matching tool_use in the preceding assistant message, and no          *)
(* assistant message is empty; applying history repair to an already       *)
(* repaired conversation changes nothing.                                  *)
(***************************************************************************)
\* how many results of a message carry this id
CountOf(id, msg) == Cardinality({k \in 1..Len(msg.ids) : msg.ids[k] = id})

PairedHistory(conv) ==
    \A k \in 1..Len(conv) :
        /\ (conv[k].role = "assistant" /\ conv[k].ids # <<>>) =>
              /\ k < Len(conv)
              /\ conv[k + 1].role = "tool_result"
              /\ \A id \in Range(conv[k].ids) : CountOf(id, conv[k + 1]) = 1
        /\ conv[k].role = "tool_result" =>
              /\ k > 1
              /\ conv[k - 1].role = "assistant"
              /\ Range(conv[k].ids) \subseteq Range(conv[k - 1].ids)
        /\ conv[k].role = "assistant" => (conv[k].text \/ conv[k].ids # <<>>)

CompactAfter == 4   \* compact_after_messages: compact a longer conversation
KeepRecent == 2     \* messages kept after the summary

\* the summary message "[compacted N turns: ...]"
SummaryMsg ==
    [role |-> "user", text |-> TRUE, ids |-> <<>>, synthetic |-> {},
     compacted |-> TRUE]

\* a cut taken where the count puts it
RawCut(conv, cut) == cut

\* the first index from cut on that is not a tool_result message, one past
\* the end when there is none
SafeCut(conv, cut) ==
    LET safe == {k \in cut..Len(conv) : conv[k].role # "tool_result"}
    IN IF safe = {} THEN Len(conv) + 1
       ELSE CHOOSE k \in safe : \A j \in safe : k <= j

compactMessages(conv) ==
    IF Len(conv) <= CompactAfter THEN conv
    ELSE LET idealCut == Len(conv) - KeepRecent + 1
             cut == SafeCut(conv, idealCut)
         IN <<conv[1], SummaryMsg>> \o SubSeq(conv, cut, Len(conv))

\* steps 1 and 2 of a turn: repair, then compact; before is the repaired
\* conversation that compaction was given
CompactStep ==
    /\ agent.pc = "compact"
    /\ agent' = [agent EXCEPT !.before = Repair(agent.conv),
                              !.conv = compactMessages(Repair(agent.conv)),
                              !.pc = "call"]
    /\ UNCHANGED <<graphVars, busVars, guardVars, access, sw, route>>

\* steps 3 to 5: a truncated answer is discarded and a user message is
\* injected; otherwise the assistant message is appended and then its
\* tool_result message, unless the turn is interrupted before that; n is
\* the number of tool_use blocks of the answer
CompactTurn ==
    /\ agent.pc = "call"
    /\ \E n \in 0..MaxIds : \E text, interrupted, truncated \in BOOLEAN :
          LET ids == UseIds(n)
              answer == [role |-> "assistant", text |-> text, ids |-> ids,
                         synthetic |-> {}]
              results == [role |-> "tool_result", text |-> FALSE, ids |-> ids,
                          synthetic |-> {}]
          IN agent' = [agent EXCEPT
                 !.conv = IF truncated THEN Append(@, UserMsg)
                          ELSE IF interrupted \/ ids = <<>> THEN Append(@, answer)
                          ELSE @ \o <<answer, results>>,
                 !.pc = "compact"]
    /\ UNCHANGED <<graphVars, busVars, guardVars, access, sw, route>>

InitCompact ==
    /\ agent = [conv |-> <<UserMsg>>, before |-> <<UserMsg>>, pc |-> "compact"]
    /\ GraphUnused /\ BusUnused /\ GuardUnused
    /\ AccessUnused /\ WriterUnused /\ RouterUnused

SpecCompact == InitCompact /\ [][CompactStep \/ CompactTurn]_vars

(***************************************************************************)
(* C22: for every conversation long enough to be compacted, the compacted  *)
(* conversation never splits a tool_use/tool_result pair: every retained   *)
(* assistant message with tool_use blocks is immediately followed by its   *)
(* retained tool_result message, and the first message retained after the  *)
(* summary is never of role tool_result.                                   *)
(***************************************************************************)
\* the conversation is as compaction left it, and compaction had to act
JustCompacted == agent.pc = "call" /\ Len(agent.before) > CompactAfter

MaxCloses == 3      \* most calls of Close() on one session

SessionStatuses == {"running", "done", "failed", "cancelled", "interrupted"}

\* the statuses Close() leaves alone
Terminal == SessionStatuses \ {"running"}

\* a Close() that writes its status whatever was written before
CloseAlways(s) ==
    [s EXCEPT !.status = "interrupted", !.log = Append(@, "interrupted"),
              !.flushes = @ + 1]

\* Close(): the first call flushes state; the status is written only when
\* no terminal status has been written
Close(s) ==
    IF s.status \in Terminal
    THEN [s EXCEPT !.flushes = IF s.closed THEN @ ELSE @ + 1, !.closed = TRUE]
    ELSE [s EXCEPT !.status = "interrupted", !.log = Append(@, "interrupted"),
                   !.flushes = @ + 1, !.closed = TRUE]

\* what a call of Close() leaves behind
CallClose ==
    /\ agent.closes < MaxCloses
    /\ agent' = [Close(agent) EXCEPT !.closes = @ + 1]
    /\ UNCHANGED <<graphVars, busVars, guardVars, access, sw, route>>

\* the agent loop goes through a turn and records the iteration
SessionTurn ==
    /\ agent.status = "running"
    /\ ~agent.closed
    /\ agent.iteration < MaxTurns
    /\ agent' = [agent EXCEPT !.iteration = @ + 1]
    /\ UNCHANGED <<graphVars, busVars, guardVars, access, sw, route>>

\* the agent loop ends and the outcome is written: done on complete,
\* failed on fail or on the turn budget
SessionEnd ==
    /\ agent.status = "running"
    /\ ~agent.closed
    /\ \E outcome \in {"done", "failed"} :
          agent' = [agent EXCEPT !.status = outcome, !.log = Append(@, outcome)]
    /\ UNCHANGED <<graphVars, busVars, guardVars, access, sw, route>>

\* Run creates the session row with status running; Resume takes up a
\* session that was left running or interrupted
InitClose ==
    /\ \E resumed \in {"", "running", "interrupted"} :
          agent = [status |-> "running",
                   log |-> IF resumed = "" THEN <<"running">>
                           ELSE <<resumed, "running">>,
                   iteration |-> 0, flushes |-> 0, closes |-> 0,
                   closed |-> FALSE]
    /\ GraphUnused /\ BusUnused /\ GuardUnused
    /\ AccessUnused /\ WriterUnused /\ RouterUnused

SpecClose == InitClose /\ [][CallClose \/ SessionTurn \/ SessionEnd]_vars

(***************************************************************************)
(* C23: Close() is idempotent and never overwrites a terminal session      *)
(* status: once a session's status is done or failed, any later Close(),   *)
(* whether the first or a repeated one, leaves that status unchanged, and  *)
(* calling Close() twice has the same effect as calling it once.           *)
(***************************************************************************)
\* a step that is a call of Close()
IsClose == agent'.closes = agent.closes + 1

C23_CloseIdempotent ==
    /\ [][(IsClose /\ agent.status \in {"done", "failed"}) =>
              (agent'.status = agent.status /\ agent'.log = agent.log)]_vars
    /\ [][(IsClose /\ agent.closed) =>
              agent' = [agent EXCEPT !.closes = @ + 1]]_vars
    /\ [](Close(Close(agent)) = Close(agent))

\* the session ended with done, and Close() has been called a second time
C23_Witness ==
    /\ agent.closes = 2
    /\ agent.status = "done"
    /\ agent.log[Len(agent.log)] = "done"
    /\ agent.flushes = 1

(***************************************************************************)
(* The driver (cmdRun, cmdResume): the setup steps, each of which ends the *)
(* process through logger.Fatalf when it fails, the signal goroutine, the  *)
(* call of q.Run, and the way out.  logger.Fatalf writes the message and   *)
(* calls os.Exit(1), which runs no deferred call.                          *)
(***************************************************************************)
MaxSignals == 2     \* most signals sent to the process

NoExit == -1        \* the process has not exited

\* the steps before q.Run, in order; the tasks file is loaded when one is
\* given
SetupSteps(cmd, tasksFile) ==
    IF cmd = "run"
    THEN <<"loadConfig", "queen.New">>
             \o (IF tasksFile THEN <<"loadTasksFile">> ELSE <<>>)
    ELSE <<"os.Stat", "OpenDB", "FindResumableSession", "loadConfig",
           "queen.New", "ResumeSession">>

\* logger.Fatalf: the process exits with 1 and no deferred call runs
Fatalf(d) == [d EXCEPT !.pc = "exited", !.exit = 1]

\* one setup step succeeds or fails; after the last one signal.Notify is
\* called, the goroutine is started and q.Run is entered
DriverSetup ==
    /\ agent.pc = "setup"
    /\ \E ok \in BOOLEAN :
          agent' = IF ~ok THEN [Fatalf(agent) EXCEPT
                                    !.failed = SetupSteps(agent.cmd, agent.tasksFile)[agent.step]]
                   ELSE IF agent.step < Len(SetupSteps(agent.cmd, agent.tasksFile))
                   THEN [agent EXCEPT !.step = @ + 1]
                   ELSE [agent EXCEPT !.pc = "run"]
    /\ UNCHANGED <<graphVars, busVars, guardVars, access, sw, route>>

\* SIGINT or SIGTERM arrives once signal.Notify has been called; the
\* channel holds one signal, a further one is dropped
DriverSignal ==
    /\ agent.pc \in {"run", "returned"}
    /\ agent.signals < MaxSignals
    /\ agent' = [agent EXCEPT !.signals = @ + 1,
                              !.duringRun = @ \/ agent.pc = "run",
                              !.sigs = IF agent.received THEN @ ELSE 1]
    /\ UNCHANGED <<graphVars, busVars, guardVars, access, sw, route>>

\* the goroutine: <-sigs, then cancel()
DriverCancel ==
    /\ agent.pc \in {"run", "returned"}
    /\ agent.sigs = 1
    /\ ~agent.received
    /\ agent' = [agent EXCEPT !.sigs = 0, !.received = TRUE, !.cancelled = TRUE]
    /\ UNCHANGED <<graphVars, busVars, guardVars, access, sw, route>>

\* q.Run returns: with the context's error when the context is cancelled,
\* and else with nil when the objective succeeded (status done) and with
\* an error when it failed (status failed)
RunReturn ==
    /\ agent.pc = "run"
    /\ IF agent.cancelled
       THEN agent' = [agent EXCEPT !.pc = "returned", !.err = "context canceled"]
       ELSE \E outcome \in {"done", "failed"} :
               agent' = [agent EXCEPT
                      !.pc = "returned",
                      !.status = outcome,
                      !.log = Append(@, outcome),
                      !.err = IF outcome = "done" THEN "" ELSE "objective failed"]
    /\ UNCHANGED <<graphVars, busVars, guardVars, access, sw, route>>

\* after q.Run: an error goes to logger.Fatalf; with nil the function
\* returns, its deferred calls run (cancel(), q.Close()) and main returns
DriverExit ==
    /\ agent.pc = "returned"
    /\ agent' = IF agent.err # "" THEN Fatalf(agent)
                ELSE [Close(agent) EXCEPT !.closes = @ + 1, !.cancelled = TRUE,
                                          !.pc = "exited", !.exit = 0]
    /\ UNCHANGED <<graphVars, busVars, guardVars, access, sw, route>>

InitDriver ==
    /\ \E cmd \in {"run", "resume"}, tasksFile \in BOOLEAN :
          agent = [cmd |-> cmd, tasksFile |-> tasksFile, pc |-> "setup", step |-> 1, failed |-> "",
                   signals |-> 0, duringRun |-> FALSE, sigs |-> 0,
                   received |-> FALSE, cancelled |-> FALSE, err |-> "",
                   exit |-> NoExit,
                   status |-> "running",
                   log |-> IF cmd = "run" THEN <<"running">>
                           ELSE <<"interrupted", "running">>,
                   iteration |-> 0, flushes |-> 0, closes |-> 0,
                   closed |-> FALSE]
    /\ GraphUnused /\ BusUnused /\ GuardUnused
    /\ AccessUnused /\ WriterUnused /\ RouterUnused

SpecDriver ==
    InitDriver /\ [][DriverSetup \/ DriverSignal \/ DriverCancel
                        \/ RunReturn \/ DriverExit]_vars

(***************************************************************************)
(* C24: whenever SIGINT or SIGTERM arrives during a run or a resume, the   *)
(* root context is cancelled, the run returns, and Close() is subsequently *)
(* executed and records session status interrupted before the process      *)
(* exits.                                                                  *)
(***************************************************************************)
C24_SignalClosesInterrupted ==
    (agent.pc = "exited" /\ agent.duringRun) =>
        /\ agent.cancelled
        /\ agent.closed
        /\ agent.status = "interrupted"

(***************************************************************************)
(* C25: the driver's process exit status is 0 exactly when the objective   *)
(* succeeded, 1 for a user error (bad config, unknown adapter, unparseable *)
(* tasks file), 2 when the objective failed, and 130 when the run was      *)
(* interrupted by a signal.                                                *)
(***************************************************************************)
C25_ExitStatuses ==
    agent.pc = "exited" =>
        /\ agent.exit = 0 <=> agent.status = "done"
        /\ agent.failed # "" => agent.exit = 1
        /\ agent.status = "failed" => agent.exit = 2
        /\ agent.err = "context canceled" => agent.exit = 130

(***************************************************************************)
(* Spawning a worker (ShelleyWorker.Spawn).  The worker holds its status,  *)
(* its result, the command once it is built and the state of the external  *)
(* process; a nil guard is <<>>.                                           *)
(***************************************************************************)
MaxTaskPaths == 2   \* most allowed_paths of a task
MaxDescLen == 2     \* longest task description, in lexemes

\* the allowed_paths and the descriptions of the tasks spawned
TaskPaths == {<<"/", "r">>, <<"/", "l">>, <<".", ".">>}
DescLexemes == {Sep, <<"r", "m">>, <<"x">>}

\* a validation that looks at the first path only
ValidateFirstPath(g, paths) ==
    IF paths = <<>> THEN "" ELSE CheckPath(g, paths[1])

\* Guard.ValidateTaskPaths: the error of the first path that CheckPath
\* refuses, "" for nil
ValidateTaskPaths(g, paths) ==
    LET refused == SelectSeq([i \in 1..Len(paths) |-> CheckPath(g, paths[i])],
                             LAMBDA err : err # "")
    IN IF refused = <<>> THEN "" ELSE Head(refused)

\* the result of a worker that a safety check stopped
SafetyFailure(err) ==
    [Success |-> FALSE, Errors |-> <<[text |-> "safety check failed", err |-> err]>>]

\* Spawn, all under the worker's lock: the two safety checks, each of which
\* fails the worker and returns; else the read-only warning, the command,
\* status running, and the goroutine that will run the command.  pathErr
\* and cmdErr are what the two checks return, "" without a guard.
Spawn(t) ==
    \E pathErr \in {IF guard = <<>> THEN ""
                    ELSE ValidateTaskPaths(guard, t.AllowedPaths)} :
    \E cmdErr \in {IF guard = <<>> THEN ""
                   ELSE CheckCommand(guard, t.Description)} :
       agent' =
          IF pathErr # ""
          THEN [agent EXCEPT !.status = "failed", !.result = SafetyFailure(pathErr),
                             !.task = t, !.spawned = TRUE]
          ELSE IF cmdErr # ""
          THEN [agent EXCEPT !.status = "failed", !.result = SafetyFailure(cmdErr),
                             !.task = t, !.spawned = TRUE]
          ELSE [agent EXCEPT !.status = "running", !.task = t, !.spawned = TRUE,
                             !.warned = guard # <<>> /\ agent.readOnly,
                             !.cmd = TRUE, !.process = "pending"]

CallSpawn ==
    /\ ~agent.spawned
    /\ \E paths \in SeqsUpTo(TaskPaths, MaxTaskPaths) :
       \E desc \in SeqsUpTo(DescLexemes, MaxDescLen) :
          Spawn([AllowedPaths |-> paths, Description |-> desc])
    /\ UNCHANGED <<graphVars, busVars, guardVars, access, sw, route>>

\* the goroutine reaches w.cmd.Run(): the external process is started
ProcessStart ==
    /\ agent.process = "pending"
    /\ agent' = [agent EXCEPT !.process = "started"]
    /\ UNCHANGED <<graphVars, busVars, guardVars, access, sw, route>>

\* w.cmd.Run() returns and the goroutine records the outcome
ProcessExit ==
    /\ agent.process = "started"
    /\ \E ok \in BOOLEAN :
          agent' = [agent EXCEPT
                 !.process = "exited",
                 !.status = IF ok THEN "complete" ELSE "failed",
                 !.result = [Success |-> ok,
                             Errors |-> IF ok THEN <<>>
                                        ELSE <<[text |-> "exit", err |-> "exit status 1"]>>]]
    /\ UNCHANGED <<graphVars, busVars, guardVars, access, sw, route>>

\* Kill: with a command whose Process is set, which it is from the start
\* of the process on and stays after its exit, the worker is marked failed
\* and the process killed; else nothing
Kill ==
    /\ agent.spawned
    /\ ~agent.killed
    /\ agent' = IF agent.cmd /\ agent.process \in {"started", "exited"}
                THEN [agent EXCEPT !.status = "failed", !.killed = TRUE]
                ELSE [agent EXCEPT !.killed = TRUE]
    /\ UNCHANGED <<graphVars, busVars, guardVars, access, sw, route>>

\* CreateWorker: an idle worker with the adapter's guard, which is nil or
\* built from a configuration
InitSpawn ==
    /\ \/ guard = <<>>
       \/ \E m \in {"strict", "permissive"} : \E allowed \in AllowedPathLists :
          \E b \in {<<>>, <<<<"r", "m">>>>} :
             guard = NewGuard([NoConfig EXCEPT !.Mode = m, !.AllowedPaths = allowed,
                                               !.BlockedExecutables = b],
                              <<"/", "r">>)
    /\ check = <<>>
    /\ \E readOnly \in BOOLEAN :
          agent = [status |-> "idle", result |-> <<>>, cmd |-> FALSE,
                   process |-> "none", task |-> <<>>, spawned |-> FALSE,
                   warned |-> FALSE, killed |-> FALSE, readOnly |-> readOnly]
    /\ GraphUnused /\ BusUnused
    /\ AccessUnused /\ WriterUnused /\ RouterUnused

SpecSpawn ==
    InitSpawn /\ [][CallSpawn \/ ProcessStart \/ ProcessExit \/ Kill]_vars

(***************************************************************************)
(* C30: if the safety guard rejects a task at spawn time (blocked command  *)
(* or path outside the allowed roots), the rejection takes effect          *)
(* synchronously: no external process is ever started for that worker, and *)
(* by the time Spawn returns the worker is in status failed with an        *)
(* unsuccessful result carrying the safety reason.                         *)
(***************************************************************************)
\* a path of the task the guard refuses, "" when there is none
RefusedPath ==
    IF \E i \in 1..Len(agent.task.AllowedPaths) :
           CheckPath(guard, agent.task.AllowedPaths[i]) # ""
    THEN "outside allowed directories" ELSE ""

\* the guard rejects the task that was spawned
Rejected ==
    /\ agent.spawned
    /\ guard # <<>>
    /\ (RefusedPath # "" \/ CheckCommand(guard, agent.task.Description) # "")

C30_RejectionSynchronous ==
    Rejected =>
        /\ agent.status = "failed"
        /\ agent.result # <<>>
        /\ ~agent.result.Success
        /\ agent.result.Errors[1].text = "safety check failed"
        /\ agent.result.Errors[1].err
               \in {RefusedPath, CheckCommand(guard, agent.task.Description)} \ {""}
        /\ ~agent.cmd
        /\ agent.process = "none"

\* a task whose paths are all allowed and whose description runs a blocked
\* executable was rejected
C30_Witness ==
    /\ Rejected
    /\ agent.task.AllowedPaths # <<>>
    /\ RefusedPath = ""
    /\ agent.killed

(***************************************************************************)
(* C32: once a worker's Monitor() has returned a terminal status (complete *)
(* or failed) it never returns a different status afterwards, under every  *)
(* interleaving of Kill() with the goroutine that waits for process exit;  *)
(* in particular a worker reported failed never later becomes complete.    *)
(* Monitor() returns w.status under the lock, so what it can return is the *)
(* status between two steps.                                               *)
(***************************************************************************)
C32_TerminalStatusStable ==
    [][agent.status \in {"complete", "failed"} =>
           agent'.status = agent.status]_vars

(***************************************************************************)
(* C33: whenever a worker's Monitor() reports complete or failed, Result() *)
(* returns a non-nil result at that same moment, including in the window   *)
(* after Kill() has returned and before the goroutine that waits for the   *)
(* process has finished.                                                   *)
(***************************************************************************)
C33_TerminalHasResult ==
    agent.status \in {"complete", "failed"} => agent.result # <<>>

(***************************************************************************)
(* C37: after Kill() has returned on a worker whose Spawn returned without *)
(* a guard rejection, the worker never reports complete, also when Kill()  *)
(* was called before the goroutine had started the process.  (The claim's  *)
(* other half, that the worker eventually reaches failed, is not needed to *)
(* refute it.)                                                             *)
(***************************************************************************)
C37_KilledNeverComplete ==
    (agent.killed /\ agent.cmd) => agent.status # "complete"

(***************************************************************************)
(* Scripts with command substitutions, under an allow-list and a list of   *)
(* blocked executables.                                                    *)
(***************************************************************************)
NestedLexemes ==
    {Sep, <<"x">>, <<"r", "m">>, <<"$", "(", "r", "m", ")">>,
     <<"$", "(", "$", "(", "m", "k", "f", "s", ")", ")">>}

InitNested ==
    InitCommand({"strict", "permissive"},
                {<<>>, <<<<"x">>>>},
                {<<>>, <<<<"r", "m">>, <<"m", "k", "f", "s">>>>},
                {<<>>}, {<<>>})

SpecNested == InitNested /\ [][CallCheckCommand(NestedLexemes)]_vars

(***************************************************************************)
(* C35: CheckCommand denies a script if and only if at least one call      *)
(* expression in it, at any nesting depth, is individually denied by the   *)
(* policy; an allow-listed executable exempts only its own call            *)
(* expression, never the other calls of the script or the calls nested in  *)
(* its arguments.                                                          *)
(***************************************************************************)
\* the simple commands of the script last checked: the longest runs of
\* words between separators
TopCalls ==
    LET script == check.input
    IN {SubSeq(script, i, j) : i \in 1..Len(script), j \in 1..Len(script)}
       \cap {c \in SeqsUpTo(Range(script) \ {Sep}, Len(script)) : c # <<>>}
       \cap {SubSeq(script, i, j) : <<i, j>> \in
                {<<i, j>> \in (1..Len(script)) \X (1..Len(script)) :
                    /\ i <= j
                    /\ (i = 1 \/ script[i - 1] = Sep)
                    /\ (j = Len(script) \/ script[j + 1] = Sep)}}

\* the word is wrapped k times in $( )
Wrapped(w, k) ==
    /\ Len(w) > 3 * k
    /\ \A n \in 1..k : w[2 * n - 1] = "$" /\ w[2 * n] = "(" /\ w[Len(w) - n + 1] = ")"

\* the calls inside the substitutions of the words of the script
InnerCalls ==
    {<<SubSeq(w, 2 * k + 1, Len(w) - k)>> :
        <<w, k>> \in {<<w, k>> \in (Range(check.input) \ {Sep}) \X (1..2) : Wrapped(w, k)}}

\* the policy's verdict on one call expression taken by itself
CallDenied(c) == checkInvocation(guard.cfg, commandInvocation(c)) # "continue"

\* as stated
C35_DeniedIffCallDenied ==
    Checked => (Denied <=> \E c \in TopCalls \cup InnerCalls : CallDenied(c))

\* amended: for a script that parses
C35_ParsedDeniedIffCallDenied ==
    (Checked /\ Parsed) =>
        (Denied <=> \E c \in TopCalls \cup InnerCalls : CallDenied(c))

\* an allow-listed executable whose argument holds a call of a blocked one:
\* the call of x is let through by itself, and the script is denied
C35_Witness ==
    /\ Checked /\ Denied
    /\ check.input = <<<<"x">>, <<"$", "(", "r", "m", ")">>>>
    /\ <<"x">> \in Range(guard.cfg.AllowExecutables)
    /\ ~CallDenied(check.input)

(***************************************************************************)
(* C36: for the same guard configuration (allow-list, block-list,          *)
(* patterns) and the same script, strict mode is at least as restrictive   *)
(* as permissive mode: every script denied by CheckCommand in permissive   *)
(* mode is also denied in strict mode.                                     *)
(***************************************************************************)
\* scripts of destructive and harmless calls, under every combination of an
\* allow-list, a list of blocked executables and a blocked pattern
ModeLexemes ==
    {Sep, <<"r", "m">>, <<"-", "r", "f">>, <<"/">>, <<"s", "u", "d", "o">>,
     <<"m", "k", "f", "s">>}

InitModes ==
    InitCommand({"strict", "permissive"},
                {<<>>, <<<<"r", "m">>>>},
                {<<>>, <<<<"r", "m">>, <<"m", "k", "f", "s">>>>},
                {<<>>, << <<<<"s", "u", "d", "o">>, <<"r", "m">>>> >>},
                {<<>>})

SpecModes == InitModes /\ [][CallCheckCommand(ModeLexemes)]_vars

\* the guard with its mode set
InMode(mode) == [guard EXCEPT !.cfg.Mode = mode]

C36_StrictAtLeastPermissive ==
    Checked =>
        (CheckCommand(InMode("permissive"), check.input) # ""
            => CheckCommand(InMode("strict"), check.input) # "")

\* a script denied in permissive mode
C36_Witness ==
    /\ Checked /\ Denied
    /\ guard.cfg.Mode = "permissive"
    /\ check.input = <<<<"r", "m">>, <<"-", "r", "f">>, <<"/">>>>

(***************************************************************************)
(* C34: after Unsubscribe has returned, the removed handler is never       *)
(* invoked again, not even by a Publish that was already in progress on    *)
(* another thread when Unsubscribe was called.                             *)
(***************************************************************************)
\* the subscription whose handler thread p calls next has been unsubscribed
NextHandlerRemoved(p) ==
    /\ pc[p] = "handlers"
    /\ call[p].next <= Len(call[p].ids)
    /\ \E s \in subs : s.id = call[p].ids[call[p].next] /\ s.unsubscribed

\* thread p calls a handler in this step
HandlerCalled(p) ==
    pc[p] = "handlers" /\ call'[p].next = call[p].next + 1

C34_NoInvokeAfterUnsubscribe ==
    [][\A p \in Procs : HandlerCalled(p) => ~NextHandlerRemoved(p)]_vars

(***************************************************************************)
(* internal/task/task.go and internal/bus/bus.go : a TaskGraph with a bus  *)
(* on which one handler is subscribed.  Add and UpdateStatus take g.mu     *)
(* with a deferred Unlock and call g.bus.Publish before they return;       *)
(* Publish calls the handler on the calling goroutine.  g.mu is a          *)
(* sync.RWMutex: Lock and RLock both wait while a writer holds it, the     *)
(* goroutine that holds it included.                                       *)
(***************************************************************************)
\* the TaskGraph methods a handler may call, and a handler that calls none
GraphCalls == {"Get", "All", "Ready", "Failed", "DetectCycles", "UpdateStatus"}

HandlerBodies == GraphCalls \cup {"none"}

\* the statuses UpdateStatus is called with here
CallbackStatuses == {StatusRunning, StatusComplete}

MsgTaskCreated == "task.created"

MsgTaskStatusChanged == "task.status_changed"

\* the message Add publishes
TaskCreated(id, at) ==
    [Type |-> MsgTaskCreated, TaskID |-> id, Payload |-> id, Time |-> at]

\* the locals of a goroutine that is in no TaskGraph call
NoGraphCall == [op |-> "none", id |-> "", status |-> "", fns |-> <<>>, next |-> 1]

\* g.mu can be taken: no writer holds it
CanLock(mu) == mu.writer = 0

\* an UpdateStatus that announces the change of a task it did not find
UpdateStatusAnnouncing(g, id, status, at) ==
    IF id \notin DOMAIN g
    THEN [err |-> TRUE, tasks |-> g, event |-> <<StatusChanged(id, "", status, at)>>]
    ELSE [err |-> FALSE,
          tasks |-> [g EXCEPT ![id] = Written(@, status, at)],
          event |-> <<StatusChanged(id, g[id].Status, status, at)>>]

\* UpdateStatus between Lock and Publish: the error for an absent id, else
\* the written graph and the message to publish
UpdateStatusLocked(g, id, status, at) ==
    IF id \notin DOMAIN g
    THEN [err |-> TRUE, tasks |-> g, event |-> <<>>]
    ELSE [err |-> FALSE,
          tasks |-> [g EXCEPT ![id] = Written(@, status, at)],
          event |-> <<StatusChanged(id, g[id].Status, status, at)>>]

\* Add between Lock and Publish
AddLocked(g, id, at) ==
    [err |-> FALSE, tasks |-> Put(g, id, Task(StatusPending, <<>>)),
     event |-> <<TaskCreated(id, at)>>]

\* a goroutine calls Add or UpdateStatus and arrives at g.mu.Lock()
CallGraph(p) ==
    /\ pc[p] = "idle"
    /\ pubCount < MaxPublishes
    /\ \/ \E id \in TaskIds :
             call' = [call EXCEPT ![p] = [NoGraphCall EXCEPT !.op = "Add", !.id = id]]
       \/ \E id \in TaskIds \cup {AbsentId} : \E status \in CallbackStatuses :
             call' = [call EXCEPT ![p] = [NoGraphCall EXCEPT !.op = "UpdateStatus",
                                             !.id = id, !.status = status]]
    /\ pc' = [pc EXCEPT ![p] = "lock"]
    /\ pubCount' = pubCount + 1
    /\ UNCHANGED <<graphVars, handlers, history, maxHist, nextID, subs, guardVars, workVars>>

\* g.mu.Lock() is granted; the method runs up to the handler loops of
\* Publish (the history append and the copy of the handlers are under b.mu,
\* which nothing else takes here), or returns the error for an absent id
GraphLocked(p) ==
    /\ pc[p] = "lock"
    /\ CanLock(access)
    /\ \E r \in {IF call[p].op = "Add" THEN AddLocked(tasks, call[p].id, now)
                 ELSE UpdateStatusLocked(tasks, call[p].id, call[p].status, now)} :
          /\ tasks' = r.tasks
          /\ IF r.event = <<>>
             THEN /\ last' = [NoCall EXCEPT !.op = call[p].op, !.id = call[p].id,
                                            !.err = r.err]
                  /\ pc' = [pc EXCEPT ![p] = "idle"]
                  /\ call' = [call EXCEPT ![p] = NoGraphCall]
                  /\ UNCHANGED <<history, access>>
             ELSE /\ history' = Trimmed(Append(history, r.event[1]), maxHist)
                  /\ call' = [call EXCEPT ![p].fns =
                                 FnsOf(Entries(handlers, r.event[1].Type))
                                     \o FnsOf(Entries(handlers, Wildcard))]
                  /\ pc' = [pc EXCEPT ![p] = "handlers"]
                  /\ access' = [access EXCEPT !.writer = p]
                  /\ UNCHANGED last
    /\ UNCHANGED <<now, retryAfter, handlers, maxHist, nextID, subs, pubCount,
                   guardVars, sw, route, agent>>

\* handler(msg) on the publishing goroutine.  A handler that calls a method
\* of the graph arrives at its g.mu.Lock() or g.mu.RLock() and is parked
\* while the lock is held.
RunCallback(p) ==
    /\ pc[p] = "handlers"
    /\ call[p].next <= Len(call[p].fns)
    /\ \/ /\ call[p].fns[call[p].next] = "none"
          /\ call' = [call EXCEPT ![p].next = @ + 1]
          /\ UNCHANGED pc
       \/ /\ call[p].fns[call[p].next] \in GraphCalls
          /\ ~CanLock(access)
          /\ pc' = [pc EXCEPT ![p] = "parked"]
          /\ UNCHANGED call
    /\ UNCHANGED <<graphVars, handlers, history, maxHist, nextID, subs, pubCount,
                   guardVars, workVars>>

\* Publish returns, the method returns nil, the deferred g.mu.Unlock() runs
GraphReturn(p) ==
    /\ pc[p] = "handlers"
    /\ call[p].next > Len(call[p].fns)
    /\ last' = [NoCall EXCEPT !.op = call[p].op, !.id = call[p].id, !.published = TRUE]
    /\ access' = [access EXCEPT !.writer = 0]
    /\ pc' = [pc EXCEPT ![p] = "idle"]
    /\ call' = [call EXCEPT ![p] = NoGraphCall]
    /\ UNCHANGED <<tasks, now, retryAfter, handlers, history, maxHist, nextID, subs,
                   pubCount, guardVars, sw, route, agent>>

\* the graph holds task a; one handler is subscribed to one of the two
\* message types or to all
InitCallback ==
    /\ tasks = Put(NewTaskGraph, "a", Task(StatusPending, <<>>))
    /\ now = 0 /\ last = NoCall /\ retryAfter = <<>>
    /\ \E key \in {MsgTaskCreated, MsgTaskStatusChanged, Wildcard} :
       \E body \in HandlerBodies :
          /\ handlers = (key :> <<[id |-> 1, fn |-> body]>>)
          /\ subs = {[id |-> 1, msgType |-> key, unsubscribed |-> FALSE]}
    /\ history = <<>> /\ nextID = 1
    /\ maxHist = New(MaxCap)
    /\ pubCount = 0
    /\ pc = [p \in Procs |-> "idle"]
    /\ call = [p \in Procs |-> NoGraphCall]
    /\ access = [writer |-> 0]
    /\ GuardUnused /\ WriterUnused /\ RouterUnused /\ AgentUnused

SpecCallback ==
    InitCallback /\ [][\E p \in Procs : \/ CallGraph(p)
                                        \/ GraphLocked(p)
                                        \/ RunCallback(p)
                                        \/ GraphReturn(p)]_vars

\* a goroutine in the handler loops of Publish holds g.mu, and so does one
\* that is parked
HoldsGraphLock ==
    \A p \in Procs : pc[p] \in {"handlers", "parked"} => access.writer = p

(***************************************************************************)
(* C31: a bus handler subscribed to task.created or task.status_changed    *)
(* may call Get, All, Ready, Failed, DetectCycles or UpdateStatus on the   *)
(* same TaskGraph from within the callback, and the originating Add or     *)
(* UpdateStatus call still returns: no goroutine is parked on the graph    *)
(* lock that it holds itself.                                              *)
(***************************************************************************)
C31_CallbackMayCallGraph ==
    \A p \in Procs : ~(pc[p] = "parked" /\ access.writer = p)

(***************************************************************************)
(* C38: UpdateStatus with an id that is not in the graph returns an error, *)
(* changes the status and timestamps of no task, and publishes no event.   *)
(***************************************************************************)
\* goroutine p is in UpdateStatus with an id the graph does not have
AbsentUpdate(p) ==
    pc[p] = "lock" /\ call[p].op = "UpdateStatus" /\ call[p].id \notin DOMAIN tasks

\* the step in which such a call gets the lock is the step in which it
\* returns the error; the tasks and the bus history are as before and no
\* handler is called
C38_AbsentIdNoChange ==
    [][\A p \in Procs :
          (AbsentUpdate(p) /\ pc'[p] # "lock") =>
              /\ pc'[p] = "idle"
              /\ last'.op = "UpdateStatus" /\ last'.id = call[p].id /\ last'.err
              /\ ~last'.published
              /\ tasks' = tasks
              /\ history' = history]_vars

\* the error was returned on a graph whose bus has a subscriber for
\* task.status_changed and has delivered before
C38_Witness ==
    /\ last.op = "UpdateStatus" /\ last.id = AbsentId /\ last.err
    /\ Entries(handlers, MsgTaskStatusChanged) # <<>>
    /\ history # <<>>

(***************************************************************************)
(* internal/task/task.go : a scheduler that takes its tasks from Ready().  *)
(* Tasks are added pending, an id possibly a second time (Add replaces the *)
(* entry); a pending task is given another status only after a Ready()     *)
(* call has returned it.                                                   *)
(***************************************************************************)
\* the ids of the tasks that get added, and the DependsOn lists they have
SchedIds == TaskIds \cup {"d"}

SchedDeps == {<<>>} \cup {<<d>> : d \in SchedIds \cup {AbsentId}}

\* the statuses the scheduler and the workers write
SchedStatuses == {StatusAssigned, StatusComplete, StatusPending}

\* returned: the pending tasks a Ready() call has handed out; replaced: Add
\* was called with an id that the graph already had
NoSched == [returned |-> {}, replaced |-> FALSE]

\* Add(t) with t.Status pending
SchedAdd ==
    /\ \E id \in SchedIds : \E deps \in SchedDeps :
          /\ tasks' = Put(tasks, id, Task(StatusPending, deps))
          /\ agent' = [returned |-> agent.returned \ {id},
                       replaced |-> agent.replaced \/ id \in DOMAIN tasks]
    /\ last' = [NoCall EXCEPT !.op = "Add"]
    /\ UNCHANGED <<now, retryAfter, busVars, guardVars, access, sw, route>>

\* Ready(): the scheduler holds what it returned
SchedReady ==
    /\ last' = [NoCall EXCEPT !.op = "Ready", !.ready = Ready(tasks)]
    /\ agent' = [agent EXCEPT !.returned = @ \cup Ready(tasks)]
    /\ UNCHANGED <<tasks, now, retryAfter, busVars, guardVars, access, sw, route>>

\* UpdateStatus(id, status); a pending task only if Ready() returned it
SchedUpdate ==
    /\ \E id \in DOMAIN tasks : \E status \in SchedStatuses :
          /\ tasks[id].Status = StatusPending => id \in agent.returned
          /\ tasks' = [tasks EXCEPT ![id] = Written(@, status, now)]
          /\ agent' = [agent EXCEPT !.returned = @ \ {id}]
    /\ last' = [NoCall EXCEPT !.op = "UpdateStatus"]
    /\ UNCHANGED <<now, retryAfter, busVars, guardVars, access, sw, route>>

InitSched ==
    /\ tasks = NewTaskGraph
    /\ now = 0 /\ last = NoCall /\ retryAfter = <<>>
    /\ agent = NoSched
    /\ BusUnused /\ GuardUnused /\ AccessUnused /\ WriterUnused /\ RouterUnused

SpecSched == InitSched /\ [][SchedAdd \/ SchedReady \/ SchedUpdate]_vars

(***************************************************************************)
(* C39: in any execution in which a task is moved out of pending only      *)
(* after it has been returned by Ready(), a task that lies on a dependency *)
(* cycle, or that depends directly or transitively on such a task or on an *)
(* id absent from the graph, is never returned by Ready() and never        *)
(* reaches status complete.                                                *)
(***************************************************************************)
\* the ids a task of g names in DependsOn
DepsOf(g, id) == IF id \in DOMAIN g THEN Range(g[id].DependsOn) ELSE {}

\* the ids reached from the ids of S along at most n dependency edges
RECURSIVE Reached(_, _, _)
Reached(g, S, n) ==
    IF n = 0 THEN S
    ELSE Reached(g, S \cup UNION {DepsOf(g, x) : x \in S}, n - 1)

\* the ids a task depends on, directly or transitively
DependsOnTransitively(g, id) == Reached(g, DepsOf(g, id), Cardinality(DOMAIN g))

\* the task lies on a cycle
LiesOnCycle(g, id) == id \in DependsOnTransitively(g, id)

\* the task lies on a cycle, or depends on a task that does or on an id that
\* the graph does not have
NeverSatisfied(g) ==
    {id \in DOMAIN g :
        \/ LiesOnCycle(g, id)
        \/ \E x \in DependsOnTransitively(g, id) : x \notin DOMAIN g \/ LiesOnCycle(g, x)}

\* Ready() returns no such task, and no such task is given status complete
NoProgressOnNeverSatisfied ==
    /\ last'.op = "Ready" /\ tasks' = tasks =>
          last'.ready \cap NeverSatisfied(tasks) = {}
    /\ \A id \in NeverSatisfied(tasks) \cap DOMAIN tasks' :
          (tasks[id].Status # StatusComplete /\ tasks'[id].DependsOn = tasks[id].DependsOn)
              => tasks'[id].Status # StatusComplete

\* as stated
C39_NeverSatisfiedNeverRuns == [][NoProgressOnNeverSatisfied]_vars

\* amended: while no id has been added a second time
C39_NeverSatisfiedNeverRunsUniqueIds ==
    [][~agent'.replaced => NoProgressOnNeverSatisfied]_vars

\* a and b wait for each other, d waits for a; a Ready() call has returned
\* nothing
C39_Witness ==
    /\ ~agent.replaced
    /\ DOMAIN tasks = SchedIds
    /\ tasks["a"].DependsOn = <<"b">> /\ tasks["b"].DependsOn = <<"a">>
    /\ tasks["d"].DependsOn = <<"a">>
    /\ last.op = "Ready" /\ last.ready = {}

(***************************************************************************)
(* internal/bus/bus.go : handlers that call the bus they are called from.  *)
(* Publish takes b.mu, appends to the history, copies the handlers and     *)
(* unlocks before it calls them; Subscribe, unsubscribe and History take   *)
(* b.mu for their own bodies.  A goroutine's calls nest: call[p] is its    *)
(* stack of Publish frames, the innermost last.                            *)
(***************************************************************************)
\* the bus methods a handler may call, and a handler that calls none
BusCalls == {"Publish", "Subscribe", "SubscribeAll", "Unsubscribe", "History"}

\* a Publish frame: the message, the subscriptions whose handlers were
\* copied, the next one to call, and what the handlers called so far did
Frame(msg, ids) == [msg |-> msg, ids |-> ids, next |-> 1, invoked |-> <<>>]

Top(stack) == stack[Len(stack)]

\* the handler in turn has returned
Advance(stack, body) ==
    [stack EXCEPT ![Len(stack)].next = @ + 1,
                  ![Len(stack)].invoked = Append(@, body)]

\* a Publish that keeps b.mu while it calls the handlers
PublishKeepsLock(mu) == mu

\* b.mu.Unlock() after the copy of the handlers
PublishUnlock(mu) == [mu EXCEPT !.writer = 0]

\* Publish up to its handler loops, on top of the stack of goroutine p
PublishPush(p, stack) ==
    /\ pubCount < MaxPublishes
    /\ CanLock(access)
    /\ \E type \in Types :
          LET msg == [Type |-> type, Payload |-> pubCount + 1]
          IN /\ history' = Trimmed(Append(history, msg), maxHist)
             /\ call' = [call EXCEPT ![p] =
                            Append(stack, Frame(msg, IdsOf(Entries(handlers, type))
                                                      \o IdsOf(Entries(handlers, Wildcard))))]
    /\ access' = PublishUnlock([access EXCEPT !.writer = p])
    /\ pubCount' = pubCount + 1
    /\ pc' = [pc EXCEPT ![p] = "handlers"]
    /\ UNCHANGED <<handlers, maxHist, nextID, subs>>

\* Publish called by a goroutine that is in no handler
OuterPublish(p) ==
    /\ p \in Publishers
    /\ pc[p] = "idle"
    /\ PublishPush(p, <<>>)
    /\ UNCHANGED <<graphVars, guardVars, sw, route, agent>>

\* the handler in turn returns without a call of the bus
HandlerReturns(p) ==
    /\ pc[p] = "handlers"
    /\ Top(call[p]).next <= Len(Top(call[p]).ids)
    /\ call' = [call EXCEPT ![p] = Advance(@, "none")]
    /\ UNCHANGED <<handlers, history, maxHist, nextID, subs, pubCount, pc,
                   graphVars, guardVars, workVars>>

\* the handler in turn calls Publish: a frame of its own
HandlerPublishes(p) ==
    /\ pc[p] = "handlers"
    /\ Top(call[p]).next <= Len(Top(call[p]).ids)
    /\ PublishPush(p, call[p])
    /\ UNCHANGED <<graphVars, guardVars, sw, route, agent>>

\* the handler in turn calls Subscribe, SubscribeAll, Unsubscribe on some
\* handle, or History, and returns; it is parked when b.mu is held
HandlerCallsBus(p) ==
    /\ pc[p] = "handlers"
    /\ Top(call[p]).next <= Len(Top(call[p]).ids)
    /\ IF ~CanLock(access)
       THEN /\ pc' = [pc EXCEPT ![p] = "parked"]
            /\ UNCHANGED <<handlers, nextID, subs, call>>
       ELSE /\ \/ /\ nextID < MaxSubs
                  /\ \E body \in {"Subscribe", "SubscribeAll"} : \E type \in Types :
                        LET key == IF body = "Subscribe" THEN type ELSE Wildcard
                        IN /\ handlers' = (key :> Append(Entries(handlers, key),
                                                [id |-> nextID + 1, fn |-> "f"])) @@ handlers
                           /\ subs' = subs \cup {[id |-> nextID + 1, msgType |-> key,
                                                   unsubscribed |-> FALSE]}
                           /\ call' = [call EXCEPT ![p] = Advance(@, body)]
                  /\ nextID' = nextID + 1
               \/ /\ \E s \in subs :
                        /\ handlers' = (s.msgType :>
                                           RemoveId(Entries(handlers, s.msgType), s.id))
                                       @@ handlers
                        /\ subs' = (subs \ {s}) \cup {[s EXCEPT !.unsubscribed = TRUE]}
                  /\ call' = [call EXCEPT ![p] = Advance(@, "Unsubscribe")]
                  /\ UNCHANGED nextID
               \/ /\ \E n \in HistoryArgs : Len(History(history, n)) <= Len(history)
                  /\ call' = [call EXCEPT ![p] = Advance(@, "History")]
                  /\ UNCHANGED <<handlers, nextID, subs>>
            /\ UNCHANGED pc
    /\ UNCHANGED <<history, maxHist, pubCount, access, graphVars, guardVars, sw, route, agent>>

\* Publish returns: to the handler that called it, which returns in turn, or
\* to the caller outside
PublishReturns(p) ==
    /\ pc[p] = "handlers"
    /\ Top(call[p]).next > Len(Top(call[p]).ids)
    /\ IF Len(call[p]) = 1
       THEN /\ call' = [call EXCEPT ![p] = <<>>]
            /\ pc' = [pc EXCEPT ![p] = "idle"]
       ELSE /\ call' = [call EXCEPT ![p] = Advance(SubSeq(@, 1, Len(@) - 1), "Publish")]
            /\ UNCHANGED pc
    /\ UNCHANGED <<handlers, history, maxHist, nextID, subs, pubCount,
                   graphVars, guardVars, workVars>>

\* a bus with one handler subscribed to the message type and one to all
InitReentrant ==
    /\ handlers = ("t" :> <<[id |-> 1, fn |-> "f"]>>) @@ (Wildcard :> <<[id |-> 2, fn |-> "f"]>>)
    /\ subs = {[id |-> 1, msgType |-> "t", unsubscribed |-> FALSE],
               [id |-> 2, msgType |-> Wildcard, unsubscribed |-> FALSE]}
    /\ nextID = 2
    /\ history = <<>>
    /\ maxHist = New(MaxCap)
    /\ pubCount = 0
    /\ pc = [p \in Procs |-> "idle"]
    /\ call = [p \in Procs |-> <<>>]
    /\ access = [writer |-> 0]
    /\ GraphUnused /\ GuardUnused /\ WriterUnused /\ RouterUnused /\ AgentUnused

NextReentrant ==
    \E p \in Procs :
        \/ OuterPublish(p)
        \/ HandlerReturns(p)
        \/ HandlerPublishes(p)
        \/ HandlerCallsBus(p)
        \/ PublishReturns(p)

\* the goroutine keeps running
SpecReentrant == InitReentrant /\ [][NextReentrant]_vars /\ WF_vars(NextReentrant)

(***************************************************************************)
(* C40: handlers run with the bus lock released: a handler that calls      *)
(* Publish, Subscribe, SubscribeAll, Unsubscribe or History on the same    *)
(* bus from within its callback does not deadlock, and the outer Publish   *)
(* still completes and delivers to its remaining handlers.                 *)
(***************************************************************************)
\* b.mu is free whenever a handler runs and no goroutine is parked on it;
\* a Publish returns only after it has called every handler it copied;
\* and every Publish under way returns to the caller outside
C40_ReentrantHandlers ==
    /\ [](\A p \in Procs : pc[p] # "parked" /\ (pc[p] = "handlers" => CanLock(access)))
    /\ [][\A p \in Procs :
            (pc[p] = "handlers" /\ Len(call'[p]) < Len(call[p])) =>
                /\ Top(call[p]).next = Len(Top(call[p]).ids) + 1
                /\ Len(Top(call[p]).invoked) = Len(Top(call[p]).ids)]_vars
    /\ \A p \in Procs : (pc[p] = "handlers") ~> (pc[p] = "idle")

\* the first handler of the outer Publish has published and subscribed
\* through its inner Publish, and the outer Publish has gone on to call the
\* handler after it
C40_Witness ==
    \E p \in Procs :
        /\ pc[p] = "handlers"
        /\ Len(call[p]) = 1
        /\ Len(call[p][1].ids) >= 2
        /\ call[p][1].invoked = <<"Publish", "Unsubscribe">>
        /\ nextID > 2

====
